---- MODULE Spec2Model ----
(***************************************************************************)
(* Fall-alert core of wikibird2024/intergrate_fall.                        *)
(*                                                                         *)
(* Spec         the DetectionProcessor as driven by its two callers: the   *)
(*              camera loop (handle_camera_data) and the subscribe loop    *)
(*              (handle_mqtt_data); cooldown / dedup ledger, persistence   *)
(*              with retry, and the awaited _send_alerts call.             *)
(*                                                                         *)
(* SpecDispatch one _send_alerts call in detail: the telephony task         *)
(*              (AMITrigger.alert_devices) and the chat task               *)
(*              (_safe_send_telegram over TelegramBot) running             *)
(*              concurrently under asyncio.gather.                         *)
(* FairSpecDispatch  SpecDispatch with the event loop's fairness: a task   *)
(*              that can run does run, a call that returns is resumed.     *)
(*                                                                         *)
(* SpecMain     main(): the MQTT listener, the MQTT processor, the camera  *)
(*              loop and the heartbeat as asyncio tasks, and main's wait   *)
(*              for the first of them to end.                              *)
(*                                                                         *)
(* FairSpecMqtt the MQTT listener and the processor loop by themselves,     *)
(*              with the event loop's fairness.                            *)
(*                                                                         *)
(* SpecTracker  PersonTracker.update called with successive frames'         *)
(*              detections.                                                *)
(*                                                                         *)
(* SpecSubscribe  the MQTT subscribe path: _process_message, the queue,    *)
(*              mqtt_processor_loop and handle_mqtt_data.                  *)
(* SpecGate     the external requests of two concurrent dispatches.        *)
(* SpecLedger   Spec's remote path with a record of every delivery.        *)
(* SpecQueue    the MQTT message queue between _process_message and the    *)
(*              processor loop.                                            *)
(* SpecFall     FallDetector.detect_fall called with successive landmark   *)
(*              sets of one person.                                        *)
(*                                                                         *)
(* Each specification leaves the variables of the others unchanged.        *)
(*                                                                         *)
(* Python's None is the empty tuple <<>> and a present value v is <<v>>,   *)
(* so that an optional number can be compared without a type clash.        *)
(* Time is counted in minutes (the unit of cooldown_minutes).              *)
(***************************************************************************)
EXTENDS Integers, Sequences, FiniteSets, TLC

(* ------------------------------ bounds -------------------------------- *)
MaxTime == 2
MaxPersonId == 0
MaxEvents == 2
NumExtensions == 1
MaxQueue == 2
MaxDetections == 2
MaxNextId == 4
MaxRun == 6
MaxQueued == 1

(* ------------------------- program constants -------------------------- *)
cooldown_minutes == 1
insert_retries == 3
telegram_retries == 3
bot_retries == 3
semaphore_permits == 5
max_retries == 10
iou_threshold_tenths == 7
TORSO_ANGLE_THRESHOLD_VERTICAL == 60
TORSO_ANGLE_THRESHOLD_HORIZONTAL == 45
velocity_threshold_doubled == 1
FALL_DURATION_THRESHOLD == 5
FALL_STATE_DURATION_THRESHOLD == 5
min_landmark_confidence_tenths == 5
min_landmarks == 33

None == <<>>
Some(v) == <<v>>

PersonIds == 0..MaxPersonId
Times == 0..MaxTime

\* entity_id = f"camera_person_{person_id}"
CameraKey(person_id) == "camera_person_" \o ToString(person_id)

\* device ids a remote report can carry
DeviceIds == {"dev1"}
EventTimestamps == {1000, 2000}

\* the device id _normalize_data gives a report that carries none
UnknownDevice == "unknown"

Keys == {CameraKey(p) : p \in PersonIds} \cup DeviceIds \cup {UnknownDevice}

Handlers == {"camera", "mqtt"}

VARIABLES
    now,                    \* datetime.now(), in minutes
    last_alert_timestamps,  \* DetectionProcessor.last_alert_timestamps
    last_fall_timestamps,   \* DetectionProcessor.last_fall_timestamps
    fall_events,            \* rows of table fall_events, in insertion order
    task,                   \* per caller: where its handler call is suspended
    lastAuth,               \* history: the latest call of _can_alert that returned True
    streak                  \* history: the current run of identical valid remote fall reports

VARIABLES
    frame,                  \* the frame handed to _send_alerts: "none", "valid", "invalid"
    telegram_bot,           \* DetectionProcessor.telegram_bot is set
    is_connected,           \* AMITrigger.is_connected
    telegram_semaphore,     \* free permits of telegram_semaphore
    dpc,                    \* the _send_alerts call: "running", "returned"
    ami,                    \* the ami_alert task
    tg                      \* the telegram_alert task

VARIABLES
    main_pc,                \* where main() is
    tasks,                  \* state of each asyncio task main creates
    listener_pc,            \* MQTTClient.run_forever
    mqtt_running,           \* MQTTClient._running
    retry_count,            \* MQTTClient._retry_count
    connected_event,        \* MQTTClient.connected_event is set
    message_queue,          \* number of messages in MQTTClient.message_queue
    processor_pc,           \* mqtt_processor_loop
    camera_pc,              \* camera_processing_loop
    cap                     \* the cv2.VideoCapture: "none", "open", "released"

VARIABLES
    next_id,                \* PersonTracker.next_id
    tracked_people,         \* PersonTracker.tracked_people, in dict order: <<id, box>> pairs
    detected,               \* history: the detections the last update was called with
    prev_tracked,           \* history: tracked_people before the last update
    returned_before         \* history: identities returned by the updates before the last one

VARIABLES
    consecutive_frames_fallen,  \* FallDetector.consecutive_frames_fallen
    frames_in_fall_state,       \* FallDetector.frames_in_fall_state
    previous_torso_center,      \* FallDetector.previous_torso_center, doubled coordinates
    fall_result,                \* history: what the last detect_fall call returned
    fall_before,                \* history: the detector's state and result before the last call
    run,                        \* history: the run of equally classified calls ending with the last one
    pose_landmarks              \* history: the pose estimator's output behind the last call, if any

VARIABLES
    enable_ami,             \* config.ENABLE_AMI
    manager_open,           \* the connection of AMITrigger.manager is open
    gate_tg,                \* per handler: its _safe_send_telegram call
    gate_ami,               \* per handler and request: its manager.send_action call
    queued_messages,        \* the messages in MQTTClient.message_queue, oldest first
    delivery,               \* history: the last report handed to handle_mqtt_data and its fate
    dedup_passed,           \* history: the <<device, timestamp>> pairs that passed the dedup check
    putting,                \* the message _process_message is waiting to put into the full queue
    received,               \* history: the payloads the broker delivered, oldest first
    handled,                \* history: the messages handed to handle_mqtt_data, oldest first
    lost                    \* history: the messages dropped at the put timeout, with the queue size then

procVars == <<now, last_alert_timestamps, last_fall_timestamps,
              fall_events, task, lastAuth, streak>>
dispOnly == <<frame, telegram_bot, telegram_semaphore, dpc, ami, tg>>
dispVars == <<dispOnly, is_connected>>
mainOnly == <<main_pc, tasks, listener_pc, mqtt_running, retry_count,
              connected_event, message_queue, processor_pc, camera_pc, cap>>
trackVars == <<next_id, tracked_people, detected, prev_tracked, returned_before>>
fallVars == <<consecutive_frames_fallen, frames_in_fall_state, previous_torso_center,
              fall_result, fall_before, run, pose_landmarks>>
subVars == <<queued_messages>>
gateVars == <<gate_tg, gate_ami>>
ledgerVars == <<delivery, dedup_passed>>
queueVars == <<putting, received, handled, lost>>
\* the configuration never changes; the manager's connection changes only in main()
moreVars == <<subVars, gateVars, ledgerVars, queueVars, enable_ami>>
vars == <<procVars, dispVars, mainOnly, trackVars, fallVars, moreVars, manager_open>>
notProc == <<dispVars, mainOnly, trackVars, fallVars, subVars, gateVars, ledgerVars,
             queueVars, enable_ami, manager_open>>
notLedger == <<dispVars, mainOnly, trackVars, fallVars, subVars, gateVars, queueVars,
               enable_ami, manager_open>>
notQueue == <<dispVars, mainOnly, trackVars, fallVars, gateVars, ledgerVars,
              enable_ami, manager_open>>
notDisp == <<procVars, mainOnly, trackVars, fallVars, moreVars, manager_open>>
notMain == <<procVars, dispOnly, trackVars, fallVars, moreVars>>
notTrack == <<procVars, dispVars, mainOnly, fallVars, moreVars, manager_open>>
notFall == <<procVars, dispVars, mainOnly, trackVars, moreVars, manager_open>>
notProcSub == <<dispVars, mainOnly, trackVars, fallVars, gateVars, ledgerVars, queueVars,
                enable_ami, manager_open>>
notGate == <<procVars, frame, telegram_bot, dpc, ami, tg, enable_ami, is_connected,
             mainOnly, trackVars, fallVars, subVars, ledgerVars, queueVars, manager_open>>

(* ----------------------- remote payloads (inputs) --------------------- *)
\* A JSON value is a tagged tuple, so values of different JSON types are
\* told apart by their tag and never compared with each other.
JNull == <<"null">>
JBool(b) == <<"bool", b>>
JNum(n) == <<"num", n>>
JStr(s) == <<"str", s>>
\* a non-empty JSON array, and a key the object does not have
JList == <<"list">>
JMissing == <<"missing">>

\* form: a dict, or text that json.loads turns into an object / into a
\* non-object / rejects
Payload(form, dev, fall, ts, lat, lon, fix) ==
    [form |-> form, device_id |-> dev, fall_detected |-> fall, timestamp |-> ts,
     latitude |-> lat, longitude |-> lon, has_gps_fix |-> fix, raw_data |-> None]

Report(dev, ts) ==
    Payload("dict", JStr(dev), JBool(TRUE), JNum(ts), JNum(10), JNum(20), JBool(TRUE))

MqttPayloads ==
    {Report(d, ts) : d \in DeviceIds, ts \in EventTimestamps}
    \cup {Payload("json_object", JStr("dev1"), JBool(TRUE), JNum(1000), JNull, JNull, JBool(FALSE)),
          Payload("json_array", JNull, JNull, JNull, JNull, JNull, JNull),
          Payload("not_json", JNull, JNull, JNull, JNull, JNull, JNull),
          Payload("dict", JNull, JBool(TRUE), JNum(1000), JNull, JNull, JNull),
          Payload("dict", JStr("dev1"), JBool(FALSE), JNum(1000), JNull, JNull, JNull),
          Payload("dict", JStr("dev1"), JStr("true"), JNum(1000), JNull, JNull, JNull),
          Payload("dict", JStr("dev1"), JBool(TRUE), JNull, JNull, JNull, JNull),
          Payload("dict", JStr("dev1"), JBool(TRUE), JNum(1000), JNum(91), JNum(20), JBool(TRUE)),
          Payload("dict", JStr("dev1"), JBool(TRUE), JNum(1000), JStr("x"), JNum(20), JBool(TRUE)),
          Payload("dict", JList, JBool(TRUE), JNum(1000), JNull, JNull, JNull),
          Report(CameraKey(0), 1000)}

\* Python truthiness of a JSON value (`not device_id`)
Truthy(v) ==
    CASE v[1] = "null" -> FALSE
      [] v[1] = "bool" -> v[2]
      [] v[1] = "num"  -> v[2] # 0
      [] v[1] = "str"  -> v[2] # ""
      [] v[1] = "list" -> TRUE
      [] v[1] = "missing" -> FALSE

\* `fall_detected is not True`
IsTrue(v) == v[1] = "bool" /\ v[2]

\* isinstance(v, (int, float)); a Python bool is an int
IsNumber(v) == v[1] \in {"num", "bool"}

\* the number a numeric JSON value stands for (True is 1, False is 0)
NumVal(v) == IF v[1] = "bool" THEN (IF v[2] THEN 1 ELSE 0) ELSE v[2]

\* lines 62-71: the payload is a dict, or text that parses to one
ParsesToDict(mqtt_msg) == mqtt_msg.form \in {"dict", "json_object"}

\* line 79: the required fields are present and valid
RequiredFieldsOk(mqtt_msg) ==
    /\ Truthy(mqtt_msg.device_id)
    /\ IsTrue(mqtt_msg.fall_detected)
    /\ IsNumber(mqtt_msg.timestamp)

\* lines 88-94: GPS coordinates, when both present, are numbers in range
GpsOk(mqtt_msg) ==
    LET latitude == mqtt_msg.latitude
        longitude == mqtt_msg.longitude
    IN  (latitude[1] # "null" /\ longitude[1] # "null") =>
            /\ IsNumber(latitude) /\ IsNumber(longitude)
            /\ -90 <= NumVal(latitude) /\ NumVal(latitude) <= 90
            /\ -180 <= NumVal(longitude) /\ NumVal(longitude) <= 180

(* --------------------------- the ledger ------------------------------- *)
\* _can_alert, step 1: the report's timestamp equals the last one recorded
IsDuplicate_never(entity_id, event_ts) == FALSE

IsDuplicate(entity_id, event_ts) ==
    event_ts # None /\ last_fall_timestamps[entity_id] = event_ts

\* _can_alert, line 242: a new timestamp is recorded before the cooldown check
RecordEventTs(entity_id, event_ts) ==
    IF event_ts # None /\ ~IsDuplicate(entity_id, event_ts)
    THEN [last_fall_timestamps EXCEPT ![entity_id] = event_ts]
    ELSE last_fall_timestamps

\* _can_alert, step 2
is_cooldown_expired(entity_id) ==
    LET last_alert == last_alert_timestamps[entity_id]
    IN  last_alert = None \/ (now - last_alert[1]) > cooldown_minutes

\* the value _can_alert returns
can_alert(entity_id, event_ts) ==
    ~IsDuplicate(entity_id, event_ts) /\ is_cooldown_expired(entity_id)

\* why _can_alert returned what it did
Verdict(entity_id, event_ts) ==
    IF IsDuplicate(entity_id, event_ts) THEN "dup"
    ELSE IF is_cooldown_expired(entity_id) THEN "alert" ELSE "cooldown"

\* _update_last_alert
update_last_alert(entity_id) ==
    [last_alert_timestamps EXCEPT ![entity_id] = Some(now)]

(* ------------------------- events and the store ----------------------- *)
\* _create_fall_event
create_fall_event(source, entity_id, timestamp) ==
    [timestamp |-> IF timestamp # None THEN timestamp[1] ELSE now,
     source |-> source, entity_id |-> entity_id, fall_detected |-> TRUE]

\* dict.get(key) on a record
Get(d, key) == IF key \in DOMAIN d THEN Some(d[key]) ELSE None

\* the row insert_fall_event writes, and its lastrowid
NewRow(json_data) ==
    [id |-> Len(fall_events) + 1,
     timestamp |-> Get(json_data, "timestamp"),
     device_id |-> Get(json_data, "device_id")]

\* what a call of insert_fall_event can do: commit the row and return its
\* id; return None (no connection, or sqlite3.Error caught inside); raise
InsertOutcomes == {"ok", "none", "raise"}

\* lines 50 / 105: `if fall_id is None: return`
DispatchAborted_never(fall_id) == FALSE

DispatchAborted(fall_id) == fall_id = None

(* ------------------------------ tasks --------------------------------- *)
IdleTask == [pc |-> "idle", event |-> None, attempt |-> 0, fall_id |-> None,
             alert_msg |-> None]

FormatId_blank(fall_id) == ""

\* f"{fall_id}"
FormatId(fall_id) == IF fall_id = None THEN "None" ELSE ToString(fall_id[1])

\* lines 53 / 110: the alert text, with the parts the f-string puts together
AlertMsg(source, entity_id, fall_id) ==
    [text |-> IF source = "camera" THEN "Fall detected by camera for "
                                   ELSE "Fall detected by device ",
     entity_id |-> entity_id,
     event_id |-> FormatId(fall_id)]

\* the handler goes on to _send_alerts with the alert text
Sending(t, fall_id) ==
    [t EXCEPT !.pc = "send", !.fall_id = fall_id,
              !.alert_msg = Some(AlertMsg(t.event[1].source, t.event[1].entity_id, fall_id))]

NoStreak == [msg |-> None, n |-> 0, persisted |-> 0, dispatched |-> 0,
             verdict |-> "none"]

\* the requests alert_devices sends: a call and a text message per extension
Extensions == 1..NumExtensions
Requests == Extensions \X {"call", "sms"}

\* what an awaited external call can do
ConnectOutcomes == {"ok", "raise", "hang"}
ActionOutcomes == {"success", "failure", "raise", "hang"}
BotOutcomes == {"ok", "network_error", "telegram_error", "hang"}
\* what the synchronous image steps can do
CompressOutcomes == {"ok", "none", "raise"}
EncodeOutcomes == {"ok", "fail", "raise"}
Frames == {"none", "valid", "invalid"}

\* a channel task that does not exist
NoAmiTask == [pc |-> "none", req |-> [r \in Requests |-> "new"],
              attempted |-> FALSE, delivered |-> FALSE]
NoTgTask == [pc |-> "none", attempt |-> 0, inner |-> 0,
             tried_photo |-> FALSE, tried_text |-> FALSE, sent |-> "none"]

InFlight(h) == task[h].pc \notin {"idle", "raised"}
EventOf(h) == task[h].event[1]
KeyOf(h) == EventOf(h).entity_id

TypeOK ==
    /\ now \in Times
    /\ last_alert_timestamps \in [Keys -> {None} \cup {Some(t) : t \in Times}]
    /\ last_fall_timestamps \in [Keys -> {None} \cup {Some(ts) : ts \in EventTimestamps}]
    /\ Len(fall_events) <= MaxEvents
    /\ \A h \in Handlers :
          /\ task[h].pc \in {"idle", "insert", "backoff", "send", "raised"}
          /\ task[h].attempt \in 0..(insert_retries - 1)
    /\ lastAuth \in {None} \cup {Some([key |-> k, at |-> t]) : k \in Keys, t \in Times}
    /\ streak.n \in 0..2

NoDelivery == [msg |-> None, verdict |-> "none", repeat |-> FALSE, cooldown_free |-> FALSE]

\* no handler is dispatching
GateIdle ==
    /\ gate_tg = [h \in Handlers |-> "none"]
    /\ gate_ami = [h \in Handlers |-> [r \in Requests |-> "none"]]

ProcInit ==
    /\ GateIdle
    /\ now = 0
    /\ last_alert_timestamps = [k \in Keys |-> None]
    /\ last_fall_timestamps = [k \in Keys |-> None]
    /\ fall_events = <<>>
    /\ queued_messages = <<>>
    /\ task = [h \in Handlers |-> IdleTask]
    /\ lastAuth = None
    /\ streak = NoStreak
    /\ delivery = NoDelivery
    /\ dedup_passed = {}
    /\ putting = None
    /\ received = <<>>
    /\ handled = <<>>
    /\ lost = {}

\* no _send_alerts call is under observation
DispIdle ==
    /\ frame = "none"
    /\ telegram_bot = TRUE
    /\ is_connected = FALSE
    /\ telegram_semaphore = semaphore_permits
    /\ dpc = "returned"
    /\ ami = NoAmiTask
    /\ tg = NoTgTask
    /\ enable_ami = TRUE

TaskNames == {"mqtt_listener", "mqtt_processor", "camera_processing", "heartbeat"}

\* main() is not under observation
MainIdle ==
    /\ main_pc = "none"
    /\ tasks = [t \in TaskNames |-> "none"]
    /\ listener_pc = "none"
    /\ mqtt_running = TRUE
    /\ retry_count = 0
    /\ connected_event = FALSE
    /\ message_queue = 0
    /\ processor_pc = "none"
    /\ camera_pc = "none"
    /\ cap = "none"
    /\ manager_open = FALSE

\* PersonTracker.__init__
TrackerInit ==
    /\ next_id = 0
    /\ tracked_people = <<>>
    /\ detected = <<>>
    /\ prev_tracked = <<>>
    /\ returned_before = {}

\* the state reset() leaves, which is also the state after __init__
ResetState ==
    [consecutive_frames_fallen |-> 0, frames_in_fall_state |-> 0,
     previous_torso_center |-> None]

\* FallDetector.__init__
FallInit ==
    /\ consecutive_frames_fallen = 0
    /\ frames_in_fall_state = 0
    /\ previous_torso_center = None
    /\ fall_result = FALSE
    /\ fall_before = [state |-> ResetState, result |-> FALSE]
    /\ run = [class |-> "none", n |-> 0, pred |-> None, last |-> None]
    /\ pose_landmarks = None

Init == ProcInit /\ DispIdle /\ MainIdle /\ TrackerInit /\ FallInit

(* ------------------------- DetectionProcessor ------------------------- *)
\* handle_camera_data up to its first await.  is_fall is what
\* detector.detect_fall(landmarks) returned for this observation.
HandleCameraData(person_id, is_fall) ==
    LET entity_id == CameraKey(person_id) IN
    /\ task["camera"].pc = "idle"
    /\ IF is_fall /\ can_alert(entity_id, None)
       THEN /\ task' = [task EXCEPT !["camera"] =
                    [pc |-> "insert",
                     event |-> Some(create_fall_event("camera", entity_id, None)),
                     attempt |-> 0, fall_id |-> None, alert_msg |-> None]]
            /\ lastAuth' = Some([key |-> entity_id, at |-> now])
       ELSE UNCHANGED <<task, lastAuth>>
    /\ UNCHANGED <<now, last_alert_timestamps, last_fall_timestamps, fall_events, streak>>

\* the run of identical, valid remote fall reports after mqtt_msg was delivered
StreakAfter(mqtt_msg, verdict) ==
    IF streak.msg = Some(mqtt_msg)
    THEN [streak EXCEPT !.n = 2, !.verdict = verdict]
    ELSE [msg |-> Some(mqtt_msg), n |-> 1, persisted |-> 0, dispatched |-> 0,
          verdict |-> verdict]

\* _can_alert, line 236: a dict lookup raises TypeError for such a key
Unhashable(v) == v[1] = "list"

\* handle_mqtt_data was left by an exception, which mqtt_processor_loop
\* raises again: no further message is handled
RaisedTask == [IdleTask EXCEPT !.pc = "raised"]

\* handle_mqtt_data up to its first await
HandleMqttData(mqtt_msg) ==
    /\ task["mqtt"].pc = "idle"
    /\ IF ParsesToDict(mqtt_msg) /\ RequiredFieldsOk(mqtt_msg) /\ GpsOk(mqtt_msg)
            /\ Unhashable(mqtt_msg.device_id)
       THEN /\ task' = [task EXCEPT !["mqtt"] = RaisedTask]
            /\ streak' = NoStreak
            /\ UNCHANGED <<lastAuth, last_fall_timestamps>>
       ELSE IF ParsesToDict(mqtt_msg) /\ RequiredFieldsOk(mqtt_msg) /\ GpsOk(mqtt_msg)
       THEN LET device_id == mqtt_msg.device_id[2]
                event_ts == Some(NumVal(mqtt_msg.timestamp))
            IN  /\ streak' = StreakAfter(mqtt_msg, Verdict(device_id, event_ts))
                /\ last_fall_timestamps' = RecordEventTs(device_id, event_ts)
                /\ IF can_alert(device_id, event_ts)
                   THEN /\ task' = [task EXCEPT !["mqtt"] =
                               [pc |-> "insert",
                                event |-> Some(create_fall_event("esp32", device_id, event_ts)),
                                attempt |-> 0, fall_id |-> None, alert_msg |-> None]]
                        /\ lastAuth' = Some([key |-> device_id, at |-> now])
                   ELSE UNCHANGED <<task, lastAuth>>
       ELSE /\ streak' = NoStreak
            /\ UNCHANGED <<task, lastAuth, last_fall_timestamps>>
    /\ UNCHANGED <<now, last_alert_timestamps, fall_events>>

\* _insert_fall_event_with_retry: asyncio.to_thread(insert_fall_event, event)
\* completes.  A returned value, None included, is handed to the handler,
\* which aborts on None and otherwise calls _send_alerts; only an exception
\* leads to the backoff sleep.
InsertReturn(h, outcome) ==
    /\ task[h].pc = "insert"
    /\ \/ /\ outcome = "ok"
          /\ Len(fall_events) < MaxEvents
          /\ LET row == NewRow(EventOf(h))
                 fall_id == Some(row.id)
             IN  /\ fall_events' = Append(fall_events, row)
                 /\ IF DispatchAborted(fall_id)
                    THEN task' = [task EXCEPT ![h] = IdleTask]
                    ELSE task' = [task EXCEPT ![h] = Sending(task[h], fall_id)]
          /\ streak' = IF h = "mqtt"
                       THEN [streak EXCEPT !.persisted = @ + 1, !.dispatched = @ + 1]
                       ELSE streak
       \/ /\ outcome = "none"
          /\ IF DispatchAborted(None)
             THEN task' = [task EXCEPT ![h] = IdleTask]
             ELSE task' = [task EXCEPT ![h] = Sending(task[h], None)]
          /\ streak' = IF h = "mqtt" /\ ~DispatchAborted(None)
                       THEN [streak EXCEPT !.dispatched = @ + 1]
                       ELSE streak
          /\ UNCHANGED fall_events
       \/ /\ outcome = "raise"
          /\ task' = [task EXCEPT ![h].pc = "backoff"]
          /\ UNCHANGED <<fall_events, streak>>
    /\ UNCHANGED <<now, last_alert_timestamps, last_fall_timestamps, lastAuth>>

\* _insert_fall_event_with_retry: the sleep after a raised attempt ends; the
\* loop runs again or, after the last attempt, returns None
BackoffDone(h) ==
    /\ task[h].pc = "backoff"
    /\ IF task[h].attempt + 1 < insert_retries
       THEN task' = [task EXCEPT ![h].pc = "insert", ![h].attempt = @ + 1]
       ELSE IF DispatchAborted(None)
            THEN task' = [task EXCEPT ![h] = IdleTask]
            ELSE task' = [task EXCEPT ![h] = Sending(task[h], None)]
    /\ streak' = IF h = "mqtt" /\ task'[h].pc = "send"
                 THEN [streak EXCEPT !.dispatched = @ + 1]
                 ELSE streak
    /\ UNCHANGED <<now, last_alert_timestamps, last_fall_timestamps,
                   fall_events, lastAuth>>

\* `await self._send_alerts(...)` returns; then _update_last_alert(entity_id)
SendAlertsReturn(h) ==
    /\ task[h].pc = "send"
    /\ last_alert_timestamps' = update_last_alert(KeyOf(h))
    /\ task' = [task EXCEPT ![h] = IdleTask]
    /\ UNCHANGED <<now, last_fall_timestamps, fall_events, lastAuth, streak>>

\* the clock advances
Tick ==
    /\ now < MaxTime
    /\ now' = now + 1
    /\ UNCHANGED <<last_alert_timestamps, last_fall_timestamps,
                   fall_events, task, lastAuth, streak>>
    /\ UNCHANGED notProc

\* the camera loop hands one tracked person's observation to the processor
CameraObservation ==
    /\ \E person_id \in PersonIds, is_fall \in BOOLEAN :
            HandleCameraData(person_id, is_fall)
    /\ UNCHANGED notProc

\* the subscribe loop hands one queued message to the processor
MqttDelivery ==
    /\ \E mqtt_msg \in MqttPayloads : HandleMqttData(mqtt_msg)
    /\ UNCHANGED notProc

InsertStep ==
    /\ \E h \in Handlers, outcome \in InsertOutcomes : InsertReturn(h, outcome)
    /\ UNCHANGED notProc

BackoffStep ==
    /\ \E h \in Handlers : BackoffDone(h)
    /\ UNCHANGED notProc

SendStep ==
    /\ \E h \in Handlers : SendAlertsReturn(h)
    /\ UNCHANGED notProc

Next == CameraObservation \/ MqttDelivery \/ InsertStep \/ BackoffStep \/ SendStep \/ Tick

Spec == Init /\ [][Next]_vars

(* ========================= the subscribe path ========================= *)
\* What the broker delivers: text that json.loads turns into an object with
\* these fields (JMissing for an absent key), into an array, or rejects.
Raw(dev, fall, ts) ==
    Payload("json_object", dev, fall, ts, JMissing, JMissing, JMissing)

RawPayloads ==
    {Raw(JStr("dev1"), JBool(TRUE), JNum(ts)) : ts \in EventTimestamps}
    \cup {Raw(JStr("dev1"), fall, JNum(1000)) :
              fall \in {JBool(FALSE), JStr("true"), JStr(" Yes "), JStr("no"), JNum(1),
                        JNum(0), JNull, JMissing}}
    \cup {Raw(JMissing, JBool(TRUE), JNum(1000)),
          Raw(JNull, JBool(TRUE), JNum(1000)),
          Raw(JList, JBool(TRUE), JNum(1000)),
          Raw(JStr("dev1"), JBool(TRUE), JMissing),
          Payload("json_array", JNull, JNull, JNull, JNull, JNull, JNull),
          Payload("not_json", JNull, JNull, JNull, JNull, JNull, JNull)}

\* data.get(key, default)
DataGet(v, default) == IF v = JMissing THEN default ELSE v

\* value.lower().strip(), on the strings the payloads carry
LowerStrip(str) ==
    CASE str = " Yes " -> "yes"
      [] OTHER -> str

\* MQTTClient._to_bool
ToBool(value) ==
    CASE value[1] = "null" -> FALSE
      [] value[1] = "bool" -> value[2]
      [] value[1] = "str"  -> LowerStrip(value[2]) \in {"true", "1", "yes", "y", "on"}
      [] value[1] = "num"  -> value[2] # 0
      [] value[1] = "list" -> TRUE

\* MQTTClient._to_float; none of the strings the payloads carry is a numeral
ToFloat(value) ==
    CASE value[1] = "null" -> 0
      [] value[1] = "num"  -> value[2]
      [] value[1] = "bool" -> IF value[2] THEN 1 ELSE 0
      [] value[1] = "str"  -> 0
      [] value[1] = "list" -> 0

\* MQTTClient._normalize_data; an array has no get(), which gives the
\* minimal structure of the except branch
NormalizeData(data) ==
    IF data.form = "json_object"
    THEN [form |-> "dict",
          device_id |-> DataGet(data.device_id, JStr(UnknownDevice)),
          fall_detected |-> JBool(ToBool(DataGet(data.fall_detected, JBool(FALSE)))),
          latitude |-> JNum(ToFloat(DataGet(data.latitude, JNull))),
          longitude |-> JNum(ToFloat(DataGet(data.longitude, JNull))),
          has_gps_fix |-> JBool(ToBool(DataGet(data.has_gps_fix, JBool(FALSE)))),
          timestamp |-> DataGet(data.timestamp, JNull),
          raw_data |-> Some(data)]
    ELSE [form |-> "dict", device_id |-> JStr(UnknownDevice),
          fall_detected |-> JBool(FALSE), latitude |-> JNum(0), longitude |-> JNum(0),
          has_gps_fix |-> JBool(FALSE), timestamp |-> JNull, raw_data |-> Some(data)]

\* MQTTClient._process_message: text that is not JSON is dropped, anything
\* else is normalized and queued, or dropped when the queue stays full
ProcessMessage(raw_payload) ==
    /\ queued_messages' =
          IF raw_payload.form # "not_json" /\ Len(queued_messages) < MaxQueued
          THEN Append(queued_messages, NormalizeData(raw_payload))
          ELSE queued_messages
    /\ UNCHANGED procVars

\* mqtt_processor_loop: get_message() returns the oldest message, which is
\* handed to handle_mqtt_data
ProcessorDelivery ==
    /\ queued_messages # <<>>
    /\ HandleMqttData(Head(queued_messages))
    /\ queued_messages' = Tail(queued_messages)

SubscribeStep ==
    /\ \E raw_payload \in RawPayloads : ProcessMessage(raw_payload)
    /\ UNCHANGED notProcSub

ProcessorStep_subscribe ==
    /\ ProcessorDelivery
    /\ UNCHANGED notProcSub

NextSubscribe ==
    SubscribeStep \/ ProcessorStep_subscribe \/ InsertStep \/ BackoffStep \/ SendStep \/ Tick

SpecSubscribe == Init /\ [][NextSubscribe]_vars

SubscribeTypeOK ==
    /\ Len(queued_messages) <= MaxQueued
    /\ \A i \in 1..Len(queued_messages) :
          /\ queued_messages[i].form = "dict"
          /\ queued_messages[i].fall_detected[1] = "bool"
          /\ queued_messages[i].raw_data # None

(* ========================= the message queue ========================== *)
\* MQTTClient.message_queue between _process_message and mqtt_processor_loop,
\* with a queue of MaxQueue places.  Every payload is delivered by the
\* broker at most once, so that a message is known by its content.
QueuePayloads ==
    {Raw(JStr("dev1"), JBool(TRUE), JNum(ts)) : ts \in EventTimestamps}
    \cup {Payload("json_array", JNull, JNull, JNull, JNull, JNull, JNull),
          Payload("not_json", JNull, JNull, JNull, JNull, JNull, JNull)}

\* json.loads(raw_payload) returns
Parseable(raw_payload) == raw_payload.form # "not_json"

\* asyncio.Queue.full()
Full(queue) == Len(queue) >= MaxQueue

GetNowait_newest(queue) ==
    [item |-> queue[Len(queue)], rest |-> SubSeq(queue, 1, Len(queue) - 1)]

\* asyncio.Queue.get on a queue that is not empty: the oldest item
GetNowait(queue) == [item |-> Head(queue), rest |-> Tail(queue)]

\* _process_message up to the put: text that is not JSON is dropped; a
\* normalized message is queued at once when there is room, else the put waits
QueueReceive(raw_payload) ==
    /\ putting = None
    /\ raw_payload \notin {received[i] : i \in 1..Len(received)}
    /\ received' = Append(received, raw_payload)
    /\ IF ~Parseable(raw_payload)
       THEN UNCHANGED <<queued_messages, putting>>
       ELSE IF Full(queued_messages)
       THEN /\ putting' = Some(NormalizeData(raw_payload))
            /\ UNCHANGED queued_messages
       ELSE /\ queued_messages' = Append(queued_messages, NormalizeData(raw_payload))
            /\ UNCHANGED putting
    /\ UNCHANGED <<handled, lost, procVars>>

\* a place became free within the second: the waiting put completes
QueuePutResume ==
    /\ putting # None
    /\ ~Full(queued_messages)
    /\ queued_messages' = Append(queued_messages, putting[1])
    /\ putting' = None
    /\ UNCHANGED <<received, handled, lost, procVars>>

\* wait_for(put, 1.0) times out: the message is dropped
QueuePutTimeout ==
    /\ putting # None
    /\ Full(queued_messages)
    /\ lost' = lost \cup {[msg |-> putting[1], qsize |-> Len(queued_messages)]}
    /\ putting' = None
    /\ UNCHANGED <<queued_messages, received, handled, procVars>>

\* mqtt_processor_loop: get_message returns an item, which is handed to
\* handle_mqtt_data
QueueDelivery ==
    /\ queued_messages # <<>>
    /\ LET got == GetNowait(queued_messages)
       IN  /\ HandleMqttData(got.item)
           /\ queued_messages' = got.rest
           /\ handled' = Append(handled, got.item)
    /\ UNCHANGED <<putting, received, lost>>

QueueReceiveStep ==
    /\ \E raw_payload \in QueuePayloads : QueueReceive(raw_payload)
    /\ UNCHANGED notQueue

QueuePutStep ==
    /\ (QueuePutResume \/ QueuePutTimeout)
    /\ UNCHANGED notQueue

QueueDeliveryStep ==
    /\ QueueDelivery
    /\ UNCHANGED notQueue

NextQueue ==
    QueueReceiveStep \/ QueuePutStep \/ QueueDeliveryStep
        \/ InsertStep \/ BackoffStep \/ SendStep

SpecQueue == Init /\ [][NextQueue]_vars

QueueTypeOK ==
    /\ putting \in {None} \cup {Some(NormalizeData(raw)) : raw \in QueuePayloads}
    /\ \A i \in 1..Len(received) : received[i] \in QueuePayloads
    /\ \A l \in lost : l.qsize \in 0..MaxQueue

(* ======================= the ledger, observed ========================= *)
\* Spec's remote path with a record of every delivery: what _can_alert made
\* of the report, and which <<device, timestamp>> pairs passed its dedup check.
LedgerPayloads ==
    {Report(d, ts) : d \in DeviceIds, ts \in EventTimestamps}
    \cup {Payload("dict", JStr("dev1"), JBool(TRUE), JNull, JNum(10), JNum(20), JBool(TRUE)),
          Payload("dict", JStr("dev1"), JBool(FALSE), JNum(1000), JNull, JNull, JNull)}

\* how handle_mqtt_data leaves its synchronous part (lines 62-101)
DeliveryVerdict(mqtt_msg) ==
    IF ~(ParsesToDict(mqtt_msg) /\ RequiredFieldsOk(mqtt_msg) /\ GpsOk(mqtt_msg))
    THEN "dropped"
    ELSE IF Unhashable(mqtt_msg.device_id) THEN "raised"
    ELSE Verdict(mqtt_msg.device_id[2], Some(NumVal(mqtt_msg.timestamp)))

\* the <<device, timestamp>> pair of a report that reaches _can_alert
PairOf(mqtt_msg) == <<mqtt_msg.device_id[2], NumVal(mqtt_msg.timestamp)>>

LedgerDelivery(mqtt_msg) ==
    LET verdict == DeliveryVerdict(mqtt_msg)
        passed == verdict \in {"alert", "cooldown"}
    IN  /\ HandleMqttData(mqtt_msg)
        /\ delivery' =
              [msg |-> Some(mqtt_msg), verdict |-> verdict,
               repeat |-> passed /\ PairOf(mqtt_msg) \in dedup_passed,
               cooldown_free |-> /\ mqtt_msg.device_id[1] = "str"
                                 /\ mqtt_msg.device_id[2] \in Keys
                                 /\ is_cooldown_expired(mqtt_msg.device_id[2])]
        /\ dedup_passed' = IF passed THEN dedup_passed \cup {PairOf(mqtt_msg)}
                           ELSE dedup_passed

LedgerStep ==
    /\ \E mqtt_msg \in LedgerPayloads : LedgerDelivery(mqtt_msg)
    /\ UNCHANGED notLedger

NextLedger == LedgerStep \/ InsertStep \/ BackoffStep \/ SendStep \/ Tick

SpecLedger == Init /\ [][NextLedger]_vars

LedgerTypeOK ==
    /\ delivery.msg \in {None} \cup {Some(m) : m \in LedgerPayloads}
    /\ delivery.verdict \in {"none", "dropped", "dup", "cooldown", "alert"}
    /\ dedup_passed \subseteq DeviceIds \X EventTimestamps

(* ===================== the concurrency gate =========================== *)
\* The camera task and the processor task each await _send_alerts, so two
\* dispatches can run at once.  Of each dispatch only the external requests
\* are kept: the Telegram send inside `async with telegram_semaphore`, and
\* the manager.send_action calls of alert_devices over a connected manager.

\* _send_alerts creates both channel tasks
GateDispatch(h) ==
    /\ gate_tg[h] = "none"
    /\ gate_tg' = [gate_tg EXCEPT ![h] = IF telegram_bot THEN "waiting" ELSE "done"]
    /\ gate_ami' = [gate_ami EXCEPT ![h] = [r \in Requests |-> "new"]]
    /\ UNCHANGED telegram_semaphore

\* _safe_send_telegram enters `async with telegram_semaphore` and awaits the
\* bot's send
GateTgAcquire(h) ==
    /\ gate_tg[h] = "waiting"
    /\ telegram_semaphore > 0
    /\ telegram_semaphore' = telegram_semaphore - 1
    /\ gate_tg' = [gate_tg EXCEPT ![h] = "in_flight"]
    /\ UNCHANGED gate_ami

\* the send is over and the semaphore is released
GateTgReturn(h) ==
    /\ gate_tg[h] = "in_flight"
    /\ telegram_semaphore' = telegram_semaphore + 1
    /\ gate_tg' = [gate_tg EXCEPT ![h] = "done"]
    /\ UNCHANGED gate_ami

\* _originate_call / _send_message awaits manager.send_action
GateAmiSend(h, r) ==
    /\ gate_ami[h][r] = "new"
    /\ gate_ami' = [gate_ami EXCEPT ![h][r] = "in_flight"]
    /\ UNCHANGED <<gate_tg, telegram_semaphore>>

GateAmiReturn(h, r) ==
    /\ gate_ami[h][r] = "in_flight"
    /\ gate_ami' = [gate_ami EXCEPT ![h][r] = "done"]
    /\ UNCHANGED <<gate_tg, telegram_semaphore>>

\* the gather of _send_alerts returns to the handler
GateDispatchReturn(h) ==
    /\ gate_tg[h] = "done"
    /\ \A r \in Requests : gate_ami[h][r] = "done"
    /\ gate_tg' = [gate_tg EXCEPT ![h] = "none"]
    /\ gate_ami' = [gate_ami EXCEPT ![h] = [r \in Requests |-> "none"]]
    /\ UNCHANGED telegram_semaphore

GateDispatchStep ==
    /\ \E h \in Handlers : GateDispatch(h) \/ GateDispatchReturn(h)
    /\ UNCHANGED notGate

GateTgStep ==
    /\ \E h \in Handlers : GateTgAcquire(h) \/ GateTgReturn(h)
    /\ UNCHANGED notGate

GateAmiStep ==
    /\ \E h \in Handlers, r \in Requests : GateAmiSend(h, r) \/ GateAmiReturn(h, r)
    /\ UNCHANGED notGate

NextGate == GateDispatchStep \/ GateTgStep \/ GateAmiStep

SpecGate == Init /\ [][NextGate]_vars

\* the external requests that are awaited at this moment
InFlightRequests ==
    Cardinality({h \in Handlers : gate_tg[h] = "in_flight"})
    + Cardinality({hr \in Handlers \X Requests : gate_ami[hr[1]][hr[2]] = "in_flight"})

GateTypeOK ==
    /\ gate_tg \in [Handlers -> {"none", "waiting", "in_flight", "done"}]
    /\ gate_ami \in [Handlers -> [Requests -> {"none", "new", "in_flight", "done"}]]
    /\ telegram_semaphore \in 0..semaphore_permits


(* ====================== one _send_alerts call ========================= *)
\* The handler has persisted the event and calls _send_alerts(msg, frame).
DispInit ==
    /\ frame \in Frames
    /\ telegram_bot \in BOOLEAN
    /\ is_connected \in BOOLEAN
    /\ enable_ami \in BOOLEAN
    /\ ~enable_ami => ~is_connected
    /\ telegram_semaphore = semaphore_permits
    /\ dpc = "called"
    /\ ami = NoAmiTask
    /\ tg = NoTgTask

InitDispatch == ProcInit /\ DispInit /\ MainIdle /\ TrackerInit /\ FallInit

\* _send_alerts: both tasks are created before the first await
SendAlerts ==
    /\ dpc = "called"
    /\ dpc' = "gather"
    /\ ami' = [ami EXCEPT !.pc = "start"]
    /\ tg' = [tg EXCEPT !.pc = "start"]
    /\ UNCHANGED <<frame, telegram_bot, is_connected, telegram_semaphore>>

(* --------------------------- AMITrigger ------------------------------- *)
\* alert_devices begins: _ensure_connected returns at once when connected,
\* otherwise awaits connect()
AmiStart ==
    /\ ami.pc = "start"
    /\ ami' = [ami EXCEPT !.pc = IF is_connected THEN "requests" ELSE "connect",
                          !.attempted = TRUE]
    /\ UNCHANGED <<frame, telegram_bot, is_connected, telegram_semaphore, dpc, tg>>

\* connect() awaited by alert_devices completes; a failure aborts the alert
AmiConnectReturn(outcome) ==
    /\ ami.pc = "connect"
    /\ \/ /\ outcome = "ok"
          /\ is_connected' = TRUE
          /\ ami' = [ami EXCEPT !.pc = "requests"]
       \/ /\ outcome = "raise"
          /\ is_connected' = FALSE
          /\ ami' = [ami EXCEPT !.pc = "done"]
       \/ /\ outcome = "hang"
          /\ ami' = [ami EXCEPT !.pc = "hung"]
          /\ UNCHANGED is_connected
    /\ UNCHANGED <<frame, telegram_bot, telegram_semaphore, dpc, tg>>

\* _originate_call / _send_message begins: _ensure_connected, then send_action
RequestStart(r) ==
    /\ ami.pc = "requests"
    /\ ami.req[r] = "new"
    /\ ami' = [ami EXCEPT !.req[r] = IF is_connected THEN "sent" ELSE "connect"]
    /\ UNCHANGED <<frame, telegram_bot, is_connected, telegram_semaphore, dpc, tg>>

\* connect() awaited by one request completes
RequestConnectReturn(r, outcome) ==
    /\ ami.pc = "requests"
    /\ ami.req[r] = "connect"
    /\ \/ /\ outcome = "ok"
          /\ is_connected' = TRUE
          /\ ami' = [ami EXCEPT !.req[r] = "sent"]
       \/ /\ outcome = "raise"
          /\ is_connected' = FALSE
          /\ ami' = [ami EXCEPT !.req[r] = "done"]
       \/ /\ outcome = "hang"
          /\ ami' = [ami EXCEPT !.req[r] = "hung"]
          /\ UNCHANGED is_connected
    /\ UNCHANGED <<frame, telegram_bot, telegram_semaphore, dpc, tg>>

\* manager.send_action awaited by one request completes
RequestResponse(r, outcome) ==
    /\ ami.pc = "requests"
    /\ ami.req[r] = "sent"
    /\ \/ /\ outcome = "success"
          /\ ami' = [ami EXCEPT !.req[r] = "done", !.delivered = TRUE]
          /\ UNCHANGED is_connected
       \/ /\ outcome = "failure"
          /\ ami' = [ami EXCEPT !.req[r] = "done"]
          /\ UNCHANGED is_connected
       \/ /\ outcome = "raise"
          /\ is_connected' = FALSE
          /\ ami' = [ami EXCEPT !.req[r] = "done"]
       \/ /\ outcome = "hang"
          /\ ami' = [ami EXCEPT !.req[r] = "hung"]
          /\ UNCHANGED is_connected
    /\ UNCHANGED <<frame, telegram_bot, telegram_semaphore, dpc, tg>>

\* the gather over the extensions returns; the cleanup sleep begins
AmiRequestsDone ==
    /\ ami.pc = "requests"
    /\ \A r \in Requests : ami.req[r] = "done"
    /\ ami' = [ami EXCEPT !.pc = "cleanup"]
    /\ UNCHANGED <<frame, telegram_bot, is_connected, telegram_semaphore, dpc, tg>>

\* the cleanup sleep ends; alert_devices and _send_ami_alert return
AmiCleanupDone ==
    /\ ami.pc = "cleanup"
    /\ ami' = [ami EXCEPT !.pc = "done"]
    /\ UNCHANGED <<frame, telegram_bot, is_connected, telegram_semaphore, dpc, tg>>

(* ------------------- _safe_send_telegram / TelegramBot ---------------- *)
\* TelegramBot.send_message is entered: its first bot.send_message call
EnterSendMessage(t) == [t EXCEPT !.pc = "text_call", !.inner = 0, !.tried_text = TRUE]

PhotoFallback_dropped(t) == [t EXCEPT !.pc = "done"]

\* TelegramBot.send_photo, lines 76-78: after a terminal error or the last
\* retry the caption is sent as text
PhotoFallback(t) == EnterSendMessage(t)

\* One pass of the retry loop of _safe_send_telegram up to its first await.
\* A valid frame is compressed and handed to send_photo, which encodes it
\* and calls bot.send_photo; an exception of either image step reaches the
\* loop's except clauses and starts the backoff sleep.
BeginAttempt(t, compress, encode) ==
    IF frame = "valid"
    THEN IF compress = "raise" THEN [t EXCEPT !.pc = "backoff"]
         ELSE IF compress = "none" THEN EnterSendMessage(t)
         ELSE IF encode = "raise" THEN [t EXCEPT !.pc = "backoff"]
         ELSE IF encode = "fail" THEN EnterSendMessage(t)
         ELSE [t EXCEPT !.pc = "photo_call", !.inner = 0, !.tried_photo = TRUE]
    ELSE EnterSendMessage(t)

\* _safe_send_telegram begins: skipped without a bot, otherwise the
\* semaphore is taken and the first pass runs
TgStart(compress, encode) ==
    /\ tg.pc = "start"
    /\ IF ~telegram_bot
       THEN /\ tg' = [tg EXCEPT !.pc = "done"]
            /\ UNCHANGED telegram_semaphore
       ELSE /\ telegram_semaphore > 0
            /\ telegram_semaphore' = telegram_semaphore - 1
            /\ tg' = BeginAttempt(tg, compress, encode)
    /\ UNCHANGED <<frame, telegram_bot, is_connected, dpc, ami>>

\* bot.send_photo completes
TgPhotoReturn(outcome) ==
    /\ tg.pc = "photo_call"
    /\ \/ /\ outcome = "ok"
          /\ tg' = [tg EXCEPT !.pc = "done", !.sent = "photo"]
          /\ telegram_semaphore' = telegram_semaphore + 1
       \/ /\ outcome = "network_error"
          /\ tg' = [tg EXCEPT !.pc = "photo_sleep"]
          /\ UNCHANGED telegram_semaphore
       \/ /\ outcome = "telegram_error"
          /\ tg' = PhotoFallback(tg)
          /\ UNCHANGED telegram_semaphore
       \/ /\ outcome = "hang"
          /\ tg' = [tg EXCEPT !.pc = "hung"]
          /\ UNCHANGED telegram_semaphore
    /\ UNCHANGED <<frame, telegram_bot, is_connected, dpc, ami>>

\* send_photo's sleep after a network error ends: next try, or text fallback
TgPhotoSleepDone ==
    /\ tg.pc = "photo_sleep"
    /\ tg' = IF tg.inner + 1 < bot_retries
             THEN [tg EXCEPT !.pc = "photo_call", !.inner = @ + 1]
             ELSE PhotoFallback(tg)
    /\ UNCHANGED <<frame, telegram_bot, is_connected, telegram_semaphore, dpc, ami>>

\* bot.send_message completes; send_message never raises, so whatever it
\* did, _safe_send_telegram returns after it
TgTextReturn(outcome) ==
    /\ tg.pc = "text_call"
    /\ \/ /\ outcome = "ok"
          /\ tg' = [tg EXCEPT !.pc = "done", !.sent = "text"]
          /\ telegram_semaphore' = telegram_semaphore + 1
       \/ /\ outcome = "network_error"
          /\ tg' = [tg EXCEPT !.pc = "text_sleep"]
          /\ UNCHANGED telegram_semaphore
       \/ /\ outcome = "telegram_error"
          /\ tg' = [tg EXCEPT !.pc = "done"]
          /\ telegram_semaphore' = telegram_semaphore + 1
       \/ /\ outcome = "hang"
          /\ tg' = [tg EXCEPT !.pc = "hung"]
          /\ UNCHANGED telegram_semaphore
    /\ UNCHANGED <<frame, telegram_bot, is_connected, dpc, ami>>

\* send_message's sleep after a network error ends: next try, or give up
TgTextSleepDone ==
    /\ tg.pc = "text_sleep"
    /\ IF tg.inner + 1 < bot_retries
       THEN /\ tg' = [tg EXCEPT !.pc = "text_call", !.inner = @ + 1]
            /\ UNCHANGED telegram_semaphore
       ELSE /\ tg' = [tg EXCEPT !.pc = "done"]
            /\ telegram_semaphore' = telegram_semaphore + 1
    /\ UNCHANGED <<frame, telegram_bot, is_connected, dpc, ami>>

\* the backoff sleep of _safe_send_telegram ends: next pass, or the final
\* text fallback after the last one
TgBackoffDone(compress, encode) ==
    /\ tg.pc = "backoff"
    /\ tg' = IF tg.attempt + 1 < telegram_retries
             THEN BeginAttempt([tg EXCEPT !.attempt = @ + 1], compress, encode)
             ELSE EnterSendMessage(tg)
    /\ UNCHANGED <<frame, telegram_bot, is_connected, telegram_semaphore, dpc, ami>>

(* ------------------------------ gather -------------------------------- *)
GatherDone_firstFailure ==
    \/ ami.pc = "done" /\ tg.pc = "done"
    \/ ami.pc = "done" /\ ~ami.delivered

\* asyncio.gather(ami_task, telegram_task, return_exceptions=True) is ready
GatherDone == ami.pc = "done" /\ tg.pc = "done"

\* _send_alerts returns to the handler
GatherReturn ==
    /\ dpc = "gather"
    /\ GatherDone
    /\ dpc' = "returned"
    /\ UNCHANGED <<frame, telegram_bot, is_connected, telegram_semaphore, ami, tg>>

AmiConnectStep ==
    /\ \E outcome \in ConnectOutcomes : AmiConnectReturn(outcome)
    /\ UNCHANGED notDisp

AmiRequestStep ==
    /\ \E r \in Requests :
          \/ RequestStart(r)
          \/ \E outcome \in ConnectOutcomes : RequestConnectReturn(r, outcome)
          \/ \E outcome \in ActionOutcomes : RequestResponse(r, outcome)
    /\ UNCHANGED notDisp

AmiStep ==
    /\ (AmiStart \/ AmiRequestsDone \/ AmiCleanupDone)
    /\ UNCHANGED notDisp

TgAttemptStep ==
    /\ \E compress \in CompressOutcomes, encode \in EncodeOutcomes :
          TgStart(compress, encode) \/ TgBackoffDone(compress, encode)
    /\ UNCHANGED notDisp

TgCallStep ==
    /\ \E outcome \in BotOutcomes : TgPhotoReturn(outcome) \/ TgTextReturn(outcome)
    /\ UNCHANGED notDisp

TgSleepStep ==
    /\ (TgPhotoSleepDone \/ TgTextSleepDone)
    /\ UNCHANGED notDisp

GatherStep ==
    /\ (SendAlerts \/ GatherReturn)
    /\ UNCHANGED notDisp

NextDispatch == AmiConnectStep \/ AmiRequestStep \/ AmiStep \/ TgAttemptStep
                    \/ TgCallStep \/ TgSleepStep \/ GatherStep

SpecDispatch == InitDispatch /\ [][NextDispatch]_vars

\* the event loop runs every task that can run
FairSpecDispatch == InitDispatch /\ [][NextDispatch]_vars /\ WF_vars(NextDispatch)

DispTypeOK ==
    /\ frame \in Frames
    /\ telegram_bot \in BOOLEAN
    /\ is_connected \in BOOLEAN
    /\ telegram_semaphore \in 0..semaphore_permits
    /\ dpc \in {"called", "gather", "returned"}
    /\ ami.pc \in {"none", "start", "connect", "requests", "cleanup", "done", "hung"}
    /\ \A r \in Requests : ami.req[r] \in {"new", "connect", "sent", "done", "hung"}
    /\ tg.pc \in {"none", "start", "photo_call", "photo_sleep", "text_call",
                  "text_sleep", "backoff", "done", "hung"}
    /\ tg.attempt \in 0..(telegram_retries - 1)
    /\ tg.inner \in 0..(bot_retries - 1)
    /\ tg.sent \in {"none", "photo", "text"}

(* =============================== main() =============================== *)
\* main() has built the modules and created the mqtt_listener task, and
\* waits up to 10 s for connected_event.
MainInit ==
    /\ main_pc = "wait_mqtt"
    /\ tasks = [t \in TaskNames |-> IF t = "mqtt_listener" THEN "running" ELSE "none"]
    /\ listener_pc = "connecting"
    /\ mqtt_running = TRUE
    /\ retry_count = 0
    /\ connected_event = FALSE
    /\ message_queue = 0
    /\ processor_pc = "none"
    /\ camera_pc = "none"
    /\ cap = "none"
    /\ manager_open = FALSE

InitMain == ProcInit /\ DispIdle /\ MainInit /\ TrackerInit /\ FallInit

\* a task has ended, by itself or by cancellation
Ended(t) == tasks[t] \in {"finished", "cancelled"}

(* ------------------------ MQTTClient.run_forever ---------------------- *)
\* the except clauses of run_forever: count the failure, then sleep and
\* retry, or give up after max_retries consecutive failures
ListenerFailed ==
    /\ connected_event' = FALSE
    /\ retry_count' = retry_count + 1
    /\ IF retry_count + 1 < max_retries
       THEN /\ listener_pc' = "sleep"
            /\ UNCHANGED <<mqtt_running, tasks>>
       ELSE /\ mqtt_running' = FALSE
            /\ listener_pc' = "ended"
            /\ tasks' = [tasks EXCEPT !["mqtt_listener"] = "finished"]

\* entering aiomqtt.Client completes; on success connected_event is set,
\* which resumes main if it is waiting for it
ListenerConnectReturn(outcome) ==
    /\ tasks["mqtt_listener"] = "running"
    /\ listener_pc = "connecting"
    /\ \/ /\ outcome = "ok"
          /\ connected_event' = TRUE
          /\ listener_pc' = "subscribing"
          /\ main_pc' = IF main_pc = "wait_mqtt" THEN "mqtt_ready" ELSE main_pc
          /\ UNCHANGED <<retry_count, mqtt_running, tasks>>
       \/ /\ outcome = "error"
          /\ ListenerFailed
          /\ UNCHANGED main_pc
    /\ UNCHANGED <<message_queue, processor_pc, camera_pc, cap, is_connected>>

\* client.subscribe completes; success resets the retry count
ListenerSubscribeReturn(outcome) ==
    /\ tasks["mqtt_listener"] = "running"
    /\ listener_pc = "subscribing"
    /\ \/ /\ outcome = "ok"
          /\ retry_count' = 0
          /\ listener_pc' = "listening"
          /\ UNCHANGED <<connected_event, mqtt_running, tasks>>
       \/ /\ outcome = "error"
          /\ ListenerFailed
    /\ UNCHANGED <<main_pc, message_queue, processor_pc, camera_pc, cap, is_connected>>

\* client.messages yields a message, which _process_message queues (or drops
\* after the put timeout when the queue is full), or the connection breaks
ListenerMessage(outcome) ==
    /\ tasks["mqtt_listener"] = "running"
    /\ listener_pc = "listening"
    /\ \/ /\ outcome = "message"
          /\ message_queue' = IF message_queue < MaxQueue
                              THEN message_queue + 1 ELSE message_queue
          /\ UNCHANGED <<listener_pc, connected_event, retry_count, mqtt_running, tasks>>
       \/ /\ outcome = "error"
          /\ ListenerFailed
          /\ UNCHANGED message_queue
    /\ UNCHANGED <<main_pc, processor_pc, camera_pc, cap, is_connected>>

\* the retry sleep ends and the while loop connects again
ListenerSleepDone ==
    /\ tasks["mqtt_listener"] = "running"
    /\ listener_pc = "sleep"
    /\ listener_pc' = "connecting"
    /\ UNCHANGED <<main_pc, tasks, mqtt_running, retry_count, connected_event,
                   message_queue, processor_pc, camera_pc, cap, is_connected>>

\* CancelledError reaches run_forever.  Inside the try it is caught and
\* clears _running; inside the retry sleep of an except clause it is not.
ListenerCancelled ==
    /\ tasks["mqtt_listener"] = "cancelling"
    /\ tasks' = [tasks EXCEPT !["mqtt_listener"] = "cancelled"]
    /\ mqtt_running' = IF listener_pc = "sleep" THEN mqtt_running ELSE FALSE
    /\ listener_pc' = "ended"
    /\ UNCHANGED <<main_pc, retry_count, connected_event, message_queue,
                   processor_pc, camera_pc, cap, is_connected>>

(* ------------------------- mqtt_processor_loop ------------------------ *)
\* the while test, then get_message up to its first wait
ProcessorLoopTop ==
    /\ tasks["mqtt_processor"] = "running"
    /\ processor_pc = "top"
    /\ IF ~mqtt_running
       THEN /\ processor_pc' = "ended"
            /\ tasks' = [tasks EXCEPT !["mqtt_processor"] = "finished"]
       ELSE /\ processor_pc' = IF connected_event THEN "wait_queue" ELSE "wait_connected"
            /\ UNCHANGED tasks
    /\ UNCHANGED <<main_pc, listener_pc, mqtt_running, retry_count, connected_event,
                   message_queue, camera_pc, cap, is_connected>>

\* connected_event.wait() returns
ProcessorConnected ==
    /\ tasks["mqtt_processor"] = "running"
    /\ processor_pc = "wait_connected"
    /\ connected_event
    /\ processor_pc' = "wait_queue"
    /\ UNCHANGED <<main_pc, tasks, listener_pc, mqtt_running, retry_count,
                   connected_event, message_queue, camera_pc, cap, is_connected>>

\* wait_for(message_queue.get(), 1.0) returns a message or times out
ProcessorGet ==
    /\ tasks["mqtt_processor"] = "running"
    /\ processor_pc = "wait_queue"
    /\ IF message_queue > 0
       THEN /\ message_queue' = message_queue - 1
            /\ processor_pc' = "handling"
       ELSE /\ processor_pc' = "top"
            /\ UNCHANGED message_queue
    /\ UNCHANGED <<main_pc, tasks, listener_pc, mqtt_running, retry_count,
                   connected_event, camera_pc, cap, is_connected>>

\* `await detection_processor.handle_mqtt_data(mqtt_msg)` returns
ProcessorHandled ==
    /\ tasks["mqtt_processor"] = "running"
    /\ processor_pc = "handling"
    /\ processor_pc' = "top"
    /\ UNCHANGED <<main_pc, tasks, listener_pc, mqtt_running, retry_count,
                   connected_event, message_queue, camera_pc, cap, is_connected>>

ProcessorCancelled ==
    /\ tasks["mqtt_processor"] = "cancelling"
    /\ tasks' = [tasks EXCEPT !["mqtt_processor"] = "cancelled"]
    /\ processor_pc' = "ended"
    /\ UNCHANGED <<main_pc, listener_pc, mqtt_running, retry_count, connected_event,
                   message_queue, camera_pc, cap, is_connected>>

(* ------------------------ camera_processing_loop ---------------------- *)
\* the camera sources are probed; without a working one the loop returns
CameraProbe(found) ==
    /\ tasks["camera_processing"] = "running"
    /\ camera_pc = "probe"
    /\ IF found
       THEN /\ cap' = "open"
            /\ camera_pc' = "loop"
            /\ UNCHANGED tasks
       ELSE /\ camera_pc' = "ended"
            /\ tasks' = [tasks EXCEPT !["camera_processing"] = "finished"]
            /\ UNCHANGED cap
    /\ UNCHANGED <<main_pc, listener_pc, mqtt_running, retry_count, connected_event,
                   message_queue, processor_pc, is_connected>>

\* one pass of the while loop: a frame is read and processed, or the read
\* fails, the user presses q, or an exception is raised; each of the last
\* three leaves the loop and the finally clause releases the capture
CameraIteration(outcome) ==
    /\ tasks["camera_processing"] = "running"
    /\ camera_pc = "loop"
    /\ IF outcome = "frame"
       THEN UNCHANGED <<camera_pc, cap, tasks>>
       ELSE /\ camera_pc' = "ended"
            /\ cap' = "released"
            /\ tasks' = [tasks EXCEPT !["camera_processing"] = "finished"]
    /\ UNCHANGED <<main_pc, listener_pc, mqtt_running, retry_count, connected_event,
                   message_queue, processor_pc, is_connected>>

\* CancelledError reaches the camera loop; the finally clause releases an
\* open capture
CameraCancelled ==
    /\ tasks["camera_processing"] = "cancelling"
    /\ tasks' = [tasks EXCEPT !["camera_processing"] = "cancelled"]
    /\ camera_pc' = "ended"
    /\ cap' = IF cap = "open" THEN "released" ELSE cap
    /\ UNCHANGED <<main_pc, listener_pc, mqtt_running, retry_count, connected_event,
                   message_queue, processor_pc, is_connected>>

\* heartbeat_loop only ever ends by cancellation
HeartbeatCancelled ==
    /\ tasks["heartbeat"] = "cancelling"
    /\ tasks' = [tasks EXCEPT !["heartbeat"] = "cancelled"]
    /\ UNCHANGED <<main_pc, listener_pc, mqtt_running, retry_count, connected_event,
                   message_queue, processor_pc, camera_pc, cap, is_connected>>

(* -------------------------------- main -------------------------------- *)
\* connected_event was set within the timeout: the processor task is created
MainMqttReady ==
    /\ main_pc = "mqtt_ready"
    /\ tasks' = [tasks EXCEPT !["mqtt_processor"] = "running"]
    /\ processor_pc' = "top"
    /\ main_pc' = "ami_connect"
    /\ UNCHANGED <<listener_pc, mqtt_running, retry_count, connected_event,
                   message_queue, camera_pc, cap, is_connected>>

\* the wait for connected_event timed out: main goes on without a processor
MainMqttTimeout ==
    /\ main_pc = "wait_mqtt"
    /\ main_pc' = "ami_connect"
    /\ UNCHANGED <<tasks, listener_pc, mqtt_running, retry_count, connected_event,
                   message_queue, processor_pc, camera_pc, cap, is_connected>>

\* ami_trigger.connect() completes; then the camera and heartbeat tasks are
\* created and main waits for the first task to end
MainAmiConnectReturn(ok) ==
    /\ main_pc = "ami_connect"
    /\ is_connected' = ok
    /\ manager_open' = ok
    /\ tasks' = [tasks EXCEPT !["camera_processing"] = "running",
                              !["heartbeat"] = "running"]
    /\ camera_pc' = "probe"
    /\ main_pc' = "wait_tasks"
    /\ UNCHANGED <<listener_pc, mqtt_running, retry_count, connected_event,
                   message_queue, processor_pc, cap>>

\* asyncio.wait(tasks, return_when=FIRST_COMPLETED) returns because a task
\* has ended; main cancels every task still pending
MainWaitReturn ==
    /\ main_pc = "wait_tasks"
    /\ \E t \in TaskNames : Ended(t)
    /\ tasks' = [t \in TaskNames |-> IF tasks[t] = "running" THEN "cancelling" ELSE tasks[t]]
    /\ main_pc' = "wait_cancelled"
    /\ UNCHANGED <<listener_pc, mqtt_running, retry_count, connected_event,
                   message_queue, processor_pc, camera_pc, cap, is_connected>>

\* cleanup_resources, line 274, and AMITrigger.close: manager.close() is
\* called only when is_connected is set
ClosedByCleanup(connected, open) == IF connected THEN FALSE ELSE open

\* a handler is running that can dispatch an alert
HandlerRunning ==
    \/ tasks["camera_processing"] = "running" /\ camera_pc = "loop"
    \/ tasks["mqtt_processor"] = "running" /\ processor_pc = "handling"

\* a dispatch: manager.send_action raises in _originate_call or
\* _send_message, which marks the trigger disconnected and closes nothing
DispatchSendError ==
    /\ HandlerRunning
    /\ is_connected
    /\ is_connected' = FALSE
    /\ UNCHANGED <<mainOnly, manager_open>>

\* a dispatch: _ensure_connected finds the trigger disconnected and awaits
\* connect()
DispatchReconnect(ok) ==
    /\ HandlerRunning
    /\ ~is_connected
    /\ is_connected' = ok
    /\ manager_open' = (manager_open \/ ok)
    /\ UNCHANGED mainOnly

\* the wait for the cancelled tasks returns (all ended, or 5 s passed); the
\* finally clause runs cleanup_resources, which closes the AMI connection
\* only when is_connected is set
MainCleanup ==
    /\ main_pc = "wait_cancelled"
    /\ main_pc' = "exited"
    /\ is_connected' = FALSE
    /\ manager_open' = ClosedByCleanup(is_connected, manager_open)
    /\ UNCHANGED <<tasks, listener_pc, mqtt_running, retry_count, connected_event,
                   message_queue, processor_pc, camera_pc, cap>>

ListenerStep ==
    /\ \/ \E outcome \in {"ok", "error"} :
             ListenerConnectReturn(outcome) \/ ListenerSubscribeReturn(outcome)
       \/ \E outcome \in {"message", "error"} : ListenerMessage(outcome)
       \/ ListenerSleepDone
    /\ UNCHANGED <<notMain, manager_open>>

ProcessorStep ==
    /\ (ProcessorLoopTop \/ ProcessorConnected \/ ProcessorGet \/ ProcessorHandled)
    /\ UNCHANGED <<notMain, manager_open>>

CameraStep ==
    /\ \/ \E found \in BOOLEAN : CameraProbe(found)
       \/ \E outcome \in {"frame", "read_failed", "quit", "exception"} :
             CameraIteration(outcome)
    /\ UNCHANGED <<notMain, manager_open>>

CancelStep ==
    /\ (ListenerCancelled \/ ProcessorCancelled \/ CameraCancelled \/ HeartbeatCancelled)
    /\ UNCHANGED <<notMain, manager_open>>

MainStep ==
    /\ \/ (MainMqttReady \/ MainMqttTimeout \/ MainWaitReturn) /\ UNCHANGED manager_open
       \/ \E ok \in BOOLEAN : MainAmiConnectReturn(ok)
       \/ MainCleanup
    /\ UNCHANGED notMain

DispatchAmiStep ==
    /\ \/ DispatchSendError
       \/ \E ok \in BOOLEAN : DispatchReconnect(ok)
    /\ UNCHANGED notMain

NextMain == ListenerStep \/ ProcessorStep \/ CameraStep \/ CancelStep \/ MainStep
                \/ DispatchAmiStep

SpecMain == InitMain /\ [][NextMain]_vars

(* The MQTT client and the processor loop by themselves: main() has created *)
(* the processor task after connected_event was set (main.py:169-175) and  *)
(* is suspended in a later await, so that no task is cancelled.            *)
MqttInit ==
    /\ main_pc = "ami_connect"
    /\ tasks = [t \in TaskNames |->
                  IF t \in {"mqtt_listener", "mqtt_processor"} THEN "running" ELSE "none"]
    /\ listener_pc = "subscribing"
    /\ mqtt_running = TRUE
    /\ retry_count = 0
    /\ connected_event = TRUE
    /\ message_queue = 0
    /\ processor_pc = "top"
    /\ camera_pc = "none"
    /\ cap = "none"
    /\ manager_open = FALSE

InitMqtt == ProcInit /\ DispIdle /\ MqttInit /\ TrackerInit /\ FallInit

NextMqtt == ListenerStep \/ ProcessorStep

SpecMqtt == InitMqtt /\ [][NextMqtt]_vars

\* the event loop resumes a task whose await can return
FairSpecMqtt == SpecMqtt /\ WF_vars(ListenerStep) /\ WF_vars(ProcessorStep)

MainTypeOK ==
    /\ main_pc \in {"none", "wait_mqtt", "mqtt_ready", "ami_connect", "wait_tasks",
                    "wait_cancelled", "exited"}
    /\ tasks \in [TaskNames -> {"none", "running", "cancelling", "finished", "cancelled"}]
    /\ listener_pc \in {"none", "connecting", "subscribing", "listening", "sleep", "ended"}
    /\ retry_count \in 0..max_retries
    /\ message_queue \in 0..MaxQueue
    /\ processor_pc \in {"none", "top", "wait_connected", "wait_queue", "handling", "ended"}
    /\ camera_pc \in {"none", "probe", "loop", "ended"}
    /\ cap \in {"none", "open", "released"}

(* ============================ the claims ============================== *)
KeyInFlight(k) == \E h \in Handlers : InFlight(h) /\ KeyOf(h) = k

C2_CooldownWindow ==
    (lastAuth # None /\ ~KeyInFlight(lastAuth[1].key)) =>
        (is_cooldown_expired(lastAuth[1].key)
            <=> (now - lastAuth[1].at) > cooldown_minutes)

\* C3 as stated: while an authorized alert is being persisted or sent, the
\* cooldown clock of its key already holds the time of the authorization
C3_CooldownRecordedAtAuthorization ==
    \A h \in Handlers :
        InFlight(h) =>
            /\ last_alert_timestamps[KeyOf(h)] # None
            /\ lastAuth # None
            /\ (lastAuth[1].key = KeyOf(h)
                  => last_alert_timestamps[KeyOf(h)] = Some(lastAuth[1].at))

\* C4 as stated: when a handler gives up an authorized alert because the
\* store write failed, the cooldown of the key is nevertheless recorded and
\* active on return
C4_CooldownRecordedOnFailure ==
    [][\A h \in Handlers :
          (task[h].pc \in {"insert", "backoff"} /\ task'[h].pc = "idle") =>
              /\ last_alert_timestamps'[KeyOf(h)] # None
              /\ ~(is_cooldown_expired(KeyOf(h)))']_vars

\* C5: whenever a handler is inside _send_alerts, the store holds the row of
\* that event and the handler holds the non-None id the insert returned
C5_NoAlertWithoutRecord ==
    \A h \in Handlers :
        task[h].pc = "send" =>
            /\ task[h].fall_id # None
            /\ task[h].fall_id[1] \in 1..Len(fall_events)
            /\ fall_events[task[h].fall_id[1]].id = task[h].fall_id[1]
            /\ fall_events[task[h].fall_id[1]].timestamp = Some(EventOf(h).timestamp)

\* C5 witness: a handler is inside _send_alerts
C5_Witness == \E h \in Handlers : task[h].pc = "send" /\ task[h].fall_id # None

\* C6 as stated: a handler gives up persisting only after insert_retries
\* attempts
C6_FailedWriteRetried ==
    [][\A h \in Handlers :
          (task[h].pc \in {"insert", "backoff"} /\ task'[h].pc = "idle") =>
              task[h].attempt = insert_retries - 1]_vars

\* C8 as stated: while a dispatch is in flight the loop that started it can
\* still take its next observation / message
C8_DetectionNotBlocked ==
    /\ InFlight("camera") => ENABLED CameraObservation
    /\ InFlight("mqtt") => ENABLED MqttDelivery

\* the telegram task made a send attempt on the chat channel
TgAttempted == tg.tried_photo \/ tg.tried_text

\* C7: within one _send_alerts call the channels are isolated.  When the
\* call returns, both channel tasks have run to their end and each channel
\* was attempted (the chat one whenever a bot is configured), whatever the
\* other channel's calls did; and while the call is in progress a chat task
\* that is not waiting on a call of its own can always take its next step,
\* whatever state the telephony task is in, and the same the other way
\* round.  The call only ever returns normally.
C7_ChannelIsolation ==
    /\ dpc = "returned" /\ ami.pc # "none" =>
          /\ ami.pc = "done" /\ tg.pc = "done"
          /\ ami.attempted
          /\ telegram_bot => TgAttempted
    /\ dpc = "gather" /\ tg.pc \in {"start", "photo_sleep", "text_sleep", "backoff"} =>
          ENABLED (TgAttemptStep \/ TgSleepStep)
    /\ dpc = "gather" /\ ami.pc \in {"start", "cleanup"} => ENABLED AmiStep

\* C7 witness: the call has returned, every telephony call failed, and the
\* chat channel delivered
C7_Witness ==
    /\ dpc = "returned"
    /\ ami.pc = "done" /\ ami.attempted /\ ~ami.delivered
    /\ tg.sent # "none"

\* C9: every external call is bounded by a timeout, so a dispatch in which
\* a call hangs still completes: every _send_alerts call eventually returns.
C9_DispatchCompletes == <>(dpc = "returned")

\* C10: the two producers are independent.  When the camera loop has ended
\* by itself (no camera, failed read, exception) the MQTT listener and
\* processor are not cancelled, and when the MQTT listener has ended by
\* itself the camera loop is not cancelled.
C10_ProducersIndependent ==
    /\ tasks["camera_processing"] = "finished" =>
          /\ tasks["mqtt_listener"] \notin {"cancelling", "cancelled"}
          /\ tasks["mqtt_processor"] \notin {"cancelling", "cancelled"}
    /\ tasks["mqtt_listener"] = "finished" =>
          tasks["camera_processing"] \notin {"cancelling", "cancelled"}

(* ============================ PersonTracker =========================== *)
\* boxes are <<x1, y1, x2, y2>>
Boxes == {<<0, 0, 10, 1>>, <<0, 0, 9, 1>>, <<0, 0, 7, 1>>, <<20, 0, 30, 1>>}

\* the detection lists a frame can produce
RECURSIVE SeqsUpTo(_, _)
SeqsUpTo(S, n) ==
    IF n = 0 THEN {<<>>}
    ELSE LET shorter == SeqsUpTo(S, n - 1)
         IN  shorter \cup {Append(q, x) : q \in {r \in shorter : Len(r) = n - 1}, x \in S}

DetectionLists == SeqsUpTo(Boxes, MaxDetections)

Max(a, b) == IF a >= b THEN a ELSE b
Min(a, b) == IF a <= b THEN a ELSE b

\* _calculate_iou: the two areas whose quotient is the IoU
IntersectionArea(box1, box2) ==
    Max(0, Min(box1[3], box2[3]) - Max(box1[1], box2[1]))
        * Max(0, Min(box1[4], box2[4]) - Max(box1[2], box2[2]))

BoxArea(box) == (box[3] - box[1]) * (box[4] - box[2])

UnionArea(box1, box2) ==
    BoxArea(box1) + BoxArea(box2) - IntersectionArea(box1, box2)

\* `iou > self.iou_threshold`, the IoU being 0 when the union is empty
IouAboveThreshold(box1, box2) ==
    /\ UnionArea(box1, box2) # 0
    /\ 10 * IntersectionArea(box1, box2) > iou_threshold_tenths * UnionArea(box1, box2)

\* index of the first detection that matches old_box, 0 when none does
FirstMatch(old_box, boxes) ==
    LET hits == {i \in 1..Len(boxes) : IouAboveThreshold(old_box, boxes[i])}
    IN  IF hits = {} THEN 0 ELSE CHOOSE i \in hits : \A j \in hits : i <= j

Pop_kept(boxes, i) == boxes

\* list.pop(i)
Pop(boxes, i) == [j \in 1..(Len(boxes) - 1) |-> IF j < i THEN boxes[j] ELSE boxes[j + 1]]

\* step 1 of update: each tracked person, in dict order, takes the first
\* remaining detection that matches its box
RECURSIVE MatchExisting(_, _, _)
MatchExisting(people, boxes, current_tracked) ==
    IF people = <<>>
    THEN [current_tracked |-> current_tracked, detected_boxes |-> boxes]
    ELSE LET person_id == Head(people)[1]
             i == FirstMatch(Head(people)[2], boxes)
         IN  IF i = 0
             THEN MatchExisting(Tail(people), boxes, current_tracked)
             ELSE MatchExisting(Tail(people), Pop(boxes, i),
                                Append(current_tracked, <<person_id, boxes[i]>>))

NewPersonId_zero(nid) == 0

\* `person_id = self.next_id`
NewPersonId(nid) == nid

NextIdAfter_same(nid) == nid

\* `self.next_id += 1`
NextIdAfter(nid) == nid + 1

\* step 2 of update: every remaining detection becomes a new person
RECURSIVE AddNew(_, _, _)
AddNew(boxes, current_tracked, nid) ==
    IF boxes = <<>>
    THEN [current_tracked |-> current_tracked, next_id |-> nid]
    ELSE AddNew(Tail(boxes),
                Append(current_tracked, <<NewPersonId(nid), Head(boxes)>>),
                NextIdAfter(nid))

Ids(people) == {people[i][1] : i \in 1..Len(people)}

TableAfter_merged(old, current_tracked) ==
    current_tracked \o SelectSeq(old, LAMBDA pair : pair[1] \notin Ids(current_tracked))

\* step 3 of update, line 62: the table is replaced by this frame's entries
TableAfter(old, current_tracked) == current_tracked

\* PersonTracker.update(detected_boxes); the returned list is the new table
Update(detected_boxes) ==
    LET matched == MatchExisting(tracked_people, detected_boxes, <<>>)
        added == AddNew(matched.detected_boxes, matched.current_tracked, next_id)
    IN  /\ next_id + Len(detected_boxes) <= MaxNextId
        /\ tracked_people' = TableAfter(tracked_people, added.current_tracked)
        /\ next_id' = added.next_id
        /\ detected' = detected_boxes
        /\ prev_tracked' = tracked_people
        /\ returned_before' = returned_before \cup Ids(tracked_people)

TrackerStep ==
    /\ \E detected_boxes \in DetectionLists : Update(detected_boxes)
    /\ UNCHANGED notTrack

NextTracker == TrackerStep

SpecTracker == Init /\ [][NextTracker]_vars

TrackerTypeOK ==
    /\ next_id \in 0..MaxNextId
    /\ \A i \in 1..Len(tracked_people) : tracked_people[i][2] \in Boxes
    /\ detected \in DetectionLists

(***************************************************************************)
(* FallDetector (src/fall/fall_detector.py).  A landmark set is the        *)
(* argument of detect_fall: `count' is len(landmarks) (None for an absent  *)
(* argument), `conf' gives landmarks[idx][2] in tenths for each torso      *)
(* index (None for an entry with fewer than three components), and `top'   *)
(* and `bottom' are the shoulder and the hip in pixels, the left and the   *)
(* right landmark of each pair coinciding.  A torso centre is kept doubled *)
(* (top + bottom), so that every comparison is exact on integers.          *)
(***************************************************************************)
LEFT_SHOULDER == 11
RIGHT_SHOULDER == 12
LEFT_HIP == 23
RIGHT_HIP == 24
TorsoIdx == {LEFT_SHOULDER, RIGHT_SHOULDER, LEFT_HIP, RIGHT_HIP}

Pose(top, bottom) == [top |-> top, bottom |-> bottom]
Upright == Pose(<<0, 0>>, <<0, 4>>)
UprightMoved == Pose(<<0, 1>>, <<0, 5>>)
UprightNudged == Pose(<<1, 0>>, <<0, 4>>)
Tilted == Pose(<<2, 1>>, <<0, 0>>)
Diagonal == Pose(<<4, 3>>, <<0, 0>>)
Flat == Pose(<<4, 2>>, <<0, 2>>)
Poses == {Upright, UprightMoved, UprightNudged, Tilted, Diagonal, Flat}

AllConf(c) == [idx \in TorsoIdx |-> <<c>>]
Landmarks(count, conf, pose) == [count |-> count, conf |-> conf, pose |-> pose]
LandmarkSets ==
    {Landmarks(<<33>>, AllConf(9), pose) : pose \in Poses}
    \cup {Landmarks(<<33>>, AllConf(min_landmark_confidence_tenths), Tilted)}
    \cup {Landmarks(<<33>>, [AllConf(9) EXCEPT ![idx] = <<4>>], Tilted) : idx \in TorsoIdx}
    \cup {Landmarks(<<33>>, [AllConf(9) EXCEPT ![LEFT_HIP] = None], Tilted)}
    \cup {Landmarks(<<32>>, AllConf(9), Tilted),
          Landmarks(<<0>>, AllConf(9), Tilted),
          Landmarks(None, AllConf(9), Tilted)}

Abs(a) == IF a >= 0 THEN a ELSE -a

\* tan(deg) * 1000, rounded down, for the four angles detect_fall compares with
TanMilli(deg) ==
    CASE deg = 45 -> 1000
      [] deg = 55 -> 1428
      [] deg = 60 -> 1732
      [] deg = 70 -> 2747

\* abs(degrees(atan2(across, along))) > deg
AngleExceeds(across, along, deg) ==
    /\ ~(across = 0 /\ along = 0)
    /\ ~(along > 0 /\ 1000 * Abs(across) <= TanMilli(deg) * along)

\* _calculate_torso_angle: dx and dy of torso_top - torso_bottom
Dx(pose) == pose.top[1] - pose.bottom[1]
Dy(pose) == pose.top[2] - pose.bottom[2]
AngleVerticalExceeds(pose, deg) == AngleExceeds(Dx(pose), Dy(pose), deg)
AngleHorizontalExceeds(pose, deg) == AngleExceeds(Dy(pose), Dx(pose), deg)

\* _calculate_velocity: the centre of the four torso landmarks, doubled
TorsoCenter(pose) == <<pose.top[1] + pose.bottom[1], pose.top[2] + pose.bottom[2]>>

VelocityExceeds_unreferenced(previous, center) ==
    previous = None \/ center # previous[1]

\* velocity_mag > VELOCITY_THRESHOLD, where the first observation has velocity 0
VelocityExceeds(previous, center) ==
    /\ previous # None
    /\ LET ddx == center[1] - previous[1][1]
           ddy == center[2] - previous[1][2]
       IN ddx * ddx + ddy * ddy > velocity_threshold_doubled * velocity_threshold_doubled

TooFew_never(landmarks) == FALSE

\* line 123: not landmarks or len(landmarks) < 33
TooFew(landmarks) ==
    \/ landmarks.count = None
    \/ landmarks.count[1] = 0
    \/ landmarks.count[1] < min_landmarks

\* line 129: len(landmarks[idx]) < 3 or landmarks[idx][2] < MIN_LANDMARK_CONFIDENCE
Unreliable(landmarks) ==
    \E idx \in TorsoIdx :
        \/ landmarks.conf[idx] = None
        \/ landmarks.conf[idx][1] < min_landmark_confidence_tenths

Invalid(landmarks) == TooFew(landmarks) \/ Unreliable(landmarks)

IsFalling(landmarks, previous) ==
    /\ \/ AngleVerticalExceeds(landmarks.pose, TORSO_ANGLE_THRESHOLD_VERTICAL)
       \/ AngleHorizontalExceeds(landmarks.pose, TORSO_ANGLE_THRESHOLD_HORIZONTAL)
    /\ VelocityExceeds(previous, TorsoCenter(landmarks.pose))

IsLying(landmarks) ==
    \/ AngleVerticalExceeds(landmarks.pose, TORSO_ANGLE_THRESHOLD_VERTICAL + 10)
    \/ AngleHorizontalExceeds(landmarks.pose, TORSO_ANGLE_THRESHOLD_HORIZONTAL + 10)

\* the branch of lines 154-162 that an observation takes
Classify(landmarks, previous) ==
    IF Invalid(landmarks) THEN "invalid"
    ELSE IF IsFalling(landmarks, previous) THEN "falling"
    ELSE IF IsLying(landmarks) THEN "lying"
    ELSE "neither"

ThresholdReached_late(count, threshold) == count > threshold

\* lines 165-168: a counter has reached its duration threshold
ThresholdReached(count, threshold) == count >= threshold

AfterConfirmation_kept(counted) == counted

\* lines 170-172: a confirmed fall resets the detector
AfterConfirmation(counted) == ResetState

LyingFramesAfter_kept(class, fifs) == IF class = "lying" THEN fifs + 1 ELSE fifs

\* lines 156, 159-160, 162: frames_in_fall_state after the counter update
LyingFramesAfter(class, fifs) == IF class = "lying" THEN fifs + 1 ELSE 0

\* the detector's state and return value after detect_fall(landmarks)
DetectFallOutcome(landmarks, cff, fifs, previous) ==
    IF Invalid(landmarks) THEN [state |-> ResetState, result |-> FALSE]
    ELSE
        LET class == Classify(landmarks, previous)
            counted ==
                [consecutive_frames_fallen |->
                     IF class = "falling" THEN cff + 1 ELSE 0,
                 frames_in_fall_state |-> LyingFramesAfter(class, fifs),
                 previous_torso_center |-> <<TorsoCenter(landmarks.pose)>>]
            is_fall_detected ==
                \/ ThresholdReached(counted.consecutive_frames_fallen, FALL_DURATION_THRESHOLD)
                \/ ThresholdReached(counted.frames_in_fall_state, FALL_STATE_DURATION_THRESHOLD)
        IN [state |-> IF is_fall_detected THEN AfterConfirmation(counted) ELSE counted,
            result |-> is_fall_detected]

\* history: the run of equally classified calls since the last confirmation
RunAfter(class, landmarks) ==
    IF class = run.class /\ ~fall_result
    THEN [run EXCEPT !.n = Min(run.n + 1, MaxRun), !.last = <<landmarks>>]
    ELSE [class |-> class, n |-> 1, pred |-> run.last, last |-> <<landmarks>>]

DetectFall(landmarks) ==
    LET out == DetectFallOutcome(landmarks, consecutive_frames_fallen,
                                 frames_in_fall_state, previous_torso_center)
    IN /\ consecutive_frames_fallen + 1 <= MaxRun
       /\ frames_in_fall_state + 1 <= MaxRun
       /\ consecutive_frames_fallen' = out.state.consecutive_frames_fallen
       /\ frames_in_fall_state' = out.state.frames_in_fall_state
       /\ previous_torso_center' = out.state.previous_torso_center
       /\ fall_result' = out.result
       /\ fall_before' =
              [state |-> [consecutive_frames_fallen |-> consecutive_frames_fallen,
                          frames_in_fall_state |-> frames_in_fall_state,
                          previous_torso_center |-> previous_torso_center],
               result |-> fall_result]
       /\ run' = RunAfter(Classify(landmarks, previous_torso_center), landmarks)

FallStep ==
    /\ \E landmarks \in LandmarkSets : DetectFall(landmarks)
    /\ pose_landmarks' = None
    /\ UNCHANGED notFall

(* The camera path (main.py:69-71, detection_processor.py:37-39): the pose  *)
(* estimator's result for the crop of one box, `origin' being the box's    *)
(* corner (x1, y1).  `pose' is lm.x * (x2 - x1) and lm.y * (y2 - y1)       *)
(* truncated, `z' and `visibility' are lm.z and lm.visibility in tenths,   *)
(* one value per torso landmark.  None is a result without pose_landmarks. *)
PoseResult(origin, pose, z, visibility) ==
    [origin |-> origin, pose |-> pose, z |-> z, visibility |-> visibility]
AllOf(c) == [idx \in TorsoIdx |-> c]
Origins == {<<0, 0>>, <<0, 1>>}
Depths == {-1, 6}
Visibilities == {2, 9}
PoseResults ==
    {PoseResult(origin, pose, AllOf(z), AllOf(v)) :
        origin \in Origins, pose \in {Upright, Flat}, z \in Depths, v \in Visibilities}

Shift(point, origin) == <<point[1] + origin[1], point[2] + origin[2]>>

\* SkeletonTracker.track_from_box: [] without a pose, else one
\* [lx, ly, lz, visibility] per landmark, so that component 2 is lm.z
TrackFromBox(results) ==
    IF results = None THEN Landmarks(<<0>>, AllConf(9), Tilted)
    ELSE Landmarks(<<min_landmarks>>,
                   [idx \in TorsoIdx |-> <<results[1].z[idx]>>],
                   Pose(Shift(results[1].pose.top, results[1].origin),
                        Shift(results[1].pose.bottom, results[1].origin)))

\* one person of one frame: track_from_box, then detect_fall in handle_camera_data
CameraDetectFall(results) ==
    /\ DetectFall(TrackFromBox(results))
    /\ pose_landmarks' = results

CameraFallStep ==
    /\ \E results \in {None} \cup {<<r>> : r \in PoseResults} : CameraDetectFall(results)
    /\ UNCHANGED notFall

NextFall == FallStep \/ CameraFallStep
SpecFall == Init /\ [][NextFall]_vars

FallTypeOK ==
    /\ consecutive_frames_fallen \in 0..MaxRun
    /\ frames_in_fall_state \in 0..MaxRun
    /\ previous_torso_center \in
           {None} \cup {<<TorsoCenter(pose)>> : pose \in Poses}
           \cup {<<Shift(TorsoCenter(pose), <<2 * origin[1], 2 * origin[2]>>)>> :
                     pose \in Poses, origin \in Origins}
    /\ pose_landmarks \in {None} \cup {<<r>> : r \in PoseResults}
    /\ fall_result \in BOOLEAN
    /\ run.class \in {"none", "invalid", "falling", "lying", "neither"}
    /\ run.n \in 0..MaxRun

\* C11: the camera loop tolerates a frame source that returns no frame: a
\* failed read leaves the loop running, ready to process the next frame.
C11_FailedReadTolerated ==
    [][CameraIteration("read_failed") =>
          /\ camera_pc' = "loop"
          /\ tasks'["camera_processing"] = "running"]_vars

\* the IoU of the two boxes is at least the configured threshold
IouAtLeastThreshold(box1, box2) ==
    /\ UnionArea(box1, box2) # 0
    /\ 10 * IntersectionArea(box1, box2) >= iou_threshold_tenths * UnionArea(box1, box2)

\* C12: tracker identity continuity.  For every identity tracked before an
\* update, if the update's detections contain a box whose IoU with the
\* identity's last box is at least the threshold, the update returns that
\* identity again.
C12_IdentityContinuity ==
    \A k \in 1..Len(prev_tracked) :
        (\E i \in 1..Len(detected) :
            IouAtLeastThreshold(prev_tracked[k][2], detected[i]))
        => prev_tracked[k][1] \in Ids(tracked_people)

\* no detection of the last update overlaps a box tracked before it
ZeroOverlap ==
    \A k \in 1..Len(prev_tracked), i \in 1..Len(detected) :
        IntersectionArea(prev_tracked[k][2], detected[i]) = 0

\* C13: when the detections of an update have zero overlap with every
\* previously tracked box, every identity it returns is strictly new: no
\* earlier update returned it.
C13_DisjointDetectionsGetNewIds ==
    ZeroOverlap =>
        Ids(tracked_people) \cap (returned_before \cup Ids(prev_tracked)) = {}

\* C13 witness: people were tracked, and an update with detections that
\* overlap none of them returned identities
C13_Witness ==
    /\ prev_tracked # <<>>
    /\ detected # <<>>
    /\ ZeroOverlap
    /\ tracked_people # <<>>

\* C14: over any sequence of updates the identities of one returned list
\* are pairwise distinct, every identity in the table is smaller than
\* next_id, next_id never decreases, and an identity that was dropped is
\* never assigned again.
C14_IdentityInvariant ==
    [][/\ \A i, j \in 1..Len(tracked_people') :
              tracked_people'[i][1] = tracked_people'[j][1] => i = j
       /\ \A id \in Ids(tracked_people') : id < next_id'
       /\ next_id' >= next_id
       /\ \A id \in Ids(tracked_people') \ Ids(tracked_people) :
              id \notin returned_before']_vars

\* C14 witness: an identity was dropped and a later update assigned a new one
C14_Witness ==
    /\ returned_before \ Ids(tracked_people) # {}
    /\ Ids(tracked_people) \ (returned_before \cup Ids(prev_tracked)) # {}

FallState ==
    [consecutive_frames_fallen |-> consecutive_frames_fallen,
     frames_in_fall_state |-> frames_in_fall_state,
     previous_torso_center |-> previous_torso_center]

C15_InvalidObservation ==
    /\ run.last # None
    /\ LET landmarks == run.last[1]
       IN \/ landmarks.count = None
          \/ landmarks.count[1] < 33
          \/ \E idx \in {11, 12, 23, 24} :
                 /\ landmarks.conf[idx] # None
                 /\ landmarks.conf[idx][1] < min_landmark_confidence_tenths

\* C15: after detect_fall was called with absent or empty landmarks, with
\* fewer than 33 entries, or with one of the torso landmarks 11, 12, 23, 24
\* below the minimum confidence, it has returned false, both counters are 0
\* and previous_torso_center is None, whatever the state before the call; a
\* repeated call therefore gives the same result and state.
C15_ValidityGate ==
    C15_InvalidObservation => ~fall_result /\ FallState = ResetState

C15_Witness ==
    /\ C15_InvalidObservation
    /\ fall_before.state.consecutive_frames_fallen > 0
    /\ fall_before.state.previous_torso_center # None

\* C16: in a run of observations classified as actively falling, detect_fall
\* returns true on the FALL_DURATION_THRESHOLD-th one and false on every
\* earlier one.
C16_Hysteresis ==
    (run.class = "falling" /\ run.n <= FALL_DURATION_THRESHOLD)
        => (fall_result <=> run.n = FALL_DURATION_THRESHOLD)

C16_Witness ==
    /\ run.class = "falling"
    /\ run.n = FALL_DURATION_THRESHOLD
    /\ run.pred # None
    /\ run.pred[1].pose = Upright
    /\ ~Invalid(run.pred[1])
    /\ fall_result

\* C17: when detect_fall returns true both counters are 0 and
\* previous_torso_center is None; the call that follows a confirmation does
\* not return true, and every confirmation ends a run of threshold-many
\* qualifying observations counted from the previous confirmation.
C17_ResetOnConfirmation ==
    /\ fall_result => FallState = ResetState
    /\ fall_before.result => ~fall_result
    /\ fall_result =>
          \/ run.class = "falling" /\ run.n = FALL_DURATION_THRESHOLD
          \/ run.class = "lying" /\ run.n = FALL_STATE_DURATION_THRESHOLD

C17_Witness ==
    /\ fall_result
    /\ fall_before.state.consecutive_frames_fallen = FALL_DURATION_THRESHOLD - 1
    /\ fall_before.state.previous_torso_center # None

\* C18: a malformed remote payload is dropped and never raised:
\* handle_mqtt_data is never left by an exception.
C18_MalformedDropped == task["mqtt"].pc # "raised"

\* the payload as the broker delivered it, of the report being handled
RawInFlight == streak.msg[1].raw_data[1]
SubscribedInFlight ==
    InFlight("mqtt") /\ streak.msg # None /\ streak.msg[1].raw_data # None

\* C19: on the subscribe path a fall event is created and an alert
\* authorised only for a payload whose fall flag is a JSON boolean.
C19_NonBooleanFlagNeverAlerts ==
    SubscribedInFlight => RawInFlight.fall_detected[1] = "bool"

\* C20: on the subscribe path a fall event is created and an alert
\* authorised only for a payload that carries a device_id.
C20_MissingDeviceNeverAlerts ==
    SubscribedInFlight => RawInFlight.device_id[1] \notin {"missing", "null"}

\* C21: the key of a remote report that handle_mqtt_data accepted is never
\* the key of a tracked person, so the two sources never share a cooldown.
C21_KeySpacesDisjoint ==
    InFlight("mqtt") => KeyOf("mqtt") \notin {CameraKey(p) : p \in PersonIds}

\* C22: between an observation's passing _can_alert and its
\* _update_last_alert no second observation for the same key passes
\* _can_alert: two handlers are never in flight for one key.
C22_AtomicCheckAndRecord ==
    (InFlight("camera") /\ InFlight("mqtt")) => KeyOf("camera") # KeyOf("mqtt")

\* C23: when _safe_send_telegram was called with a frame and has returned
\* without a photo having been delivered, a text-only send of the message
\* was attempted.
C23_ChatFallback ==
    (telegram_bot /\ frame # "none" /\ tg.pc = "done" /\ tg.sent # "photo")
        => tg.tried_text

C23_Witness ==
    /\ telegram_bot /\ frame = "valid"
    /\ tg.pc = "done" /\ tg.tried_photo /\ tg.sent = "text"

\* C24: at every moment at most semaphore_permits outgoing chat and
\* telephony requests are in flight.
C24_BoundedConcurrency == InFlightRequests <= semaphore_permits

\* C25: while a handler awaits _send_alerts, the alert text carries the
\* identifier the store returned for the row of that handler's event, and
\* that identifier is not empty.
C25_AlertEmbedsEventId ==
    \A h \in Handlers :
        task[h].pc = "send" =>
            /\ task[h].fall_id # None
            /\ task[h].fall_id[1] \in 1..Len(fall_events)
            /\ fall_events[task[h].fall_id[1]].id = task[h].fall_id[1]
            /\ fall_events[task[h].fall_id[1]].timestamp = Some(EventOf(h).timestamp)
            /\ task[h].alert_msg # None
            /\ task[h].alert_msg[1].event_id = ToString(task[h].fall_id[1])
            /\ task[h].alert_msg[1].event_id # ""

C25_Witness ==
    /\ task["mqtt"].pc = "send"
    /\ task["mqtt"].fall_id = Some(2)
    /\ task["mqtt"].alert_msg # None
    /\ task["mqtt"].alert_msg[1].event_id = "2"

\* C26: a dispatch contacts only enabled channels: with ENABLE_AMI false no
\* AMI connection is attempted and no AMI request is sent, and without a
\* configured bot no Telegram send is attempted.
C26_OnlyEnabledChannels ==
    /\ ~enable_ami =>
          /\ ami.pc \notin {"connect", "requests", "cleanup", "hung"}
          /\ \A r \in Requests : ami.req[r] = "new"
    /\ ~telegram_bot => ~TgAttempted

\* C27: when main() has ended and every task has ended, the camera capture
\* is released and the AMI manager's connection, once opened, is closed.
C27_ShutdownReleases ==
    (main_pc = "exited" /\ \A t \in TaskNames : tasks[t] \notin {"running", "cancelling"})
        => (cap # "open" /\ ~manager_open)

\* C28: after every detect_fall call at most one of the two counters is
\* non-zero: a falling observation zeroes frames_in_fall_state, a lying one
\* zeroes consecutive_frames_fallen, and one that is neither zeroes both.
C28_CounterExclusivity ==
    /\ consecutive_frames_fallen = 0 \/ frames_in_fall_state = 0
    /\ run.class = "falling" => frames_in_fall_state = 0
    /\ run.class = "lying" => consecutive_frames_fallen = 0
    /\ run.class = "neither" =>
          consecutive_frames_fallen = 0 /\ frames_in_fall_state = 0

C28_Witness ==
    /\ run.class = "falling"
    /\ fall_before.state.frames_in_fall_state > 0
    /\ consecutive_frames_fallen = 1
    /\ frames_in_fall_state = 0

\* the last call had valid landmarks and found no previous torso centre
FirstValidObservation ==
    /\ run.last # None
    /\ ~Invalid(run.last[1])
    /\ fall_before.state.previous_torso_center = None

\* C29: the first valid observation after creation, after a validity-gate
\* reset or after a confirmation does not advance consecutive_frames_fallen
\* and stores its torso centre as the reference of the next observation.
C29_FirstObservationVelocityZero ==
    FirstValidObservation =>
        /\ run.class # "falling"
        /\ consecutive_frames_fallen = 0
        /\ ~fall_result
        /\ previous_torso_center = Some(TorsoCenter(run.last[1].pose))

C29_Witness ==
    /\ FirstValidObservation
    /\ fall_before.result
    /\ run.last[1].pose = Tilted

\* the last call saw a valid upright torso that had not moved
StationaryUpright ==
    /\ run.last # None
    /\ ~Invalid(run.last[1])
    /\ run.last[1].pose = Upright
    /\ fall_before.state.previous_torso_center \in {None, Some(TorsoCenter(Upright))}

\* C30: a valid observation of a stationary upright torso (shoulders
\* directly above the hips, y growing downward) is classified as neither
\* falling nor lying, and detect_fall does not return true for it.
C30_UprightNeverConfirmed ==
    StationaryUpright => (run.class = "neither" /\ ~fall_result)
\* C31: on the camera path the value compared with the minimum confidence
\* is the landmark's visibility: a pose whose torso visibility is below the
\* minimum is rejected whatever its depth, and one whose torso visibility
\* reaches the minimum is not rejected for its depth.
C31_VisibilityCompared ==
    pose_landmarks # None =>
        (run.class = "invalid" <=>
            \E idx \in TorsoIdx :
                pose_landmarks[1].visibility[idx] < min_landmark_confidence_tenths)

\* C32: a <<device, timestamp>> pair passes the dedup check of _can_alert
\* at most once, whatever other timestamps the device reports in between.
C32_PairPassesOnce ==
    delivery.verdict \in {"alert", "cooldown"} => ~delivery.repeat

\* the store holds a row written for an event with this device timestamp
Persisted(event_ts) ==
    \E i \in 1..Len(fall_events) : fall_events[i].timestamp = Some(event_ts)

\* C33: last_fall_timestamps[device] is the timestamp of a report that was
\* processed successfully: of one whose handler is still at work, or of one
\* whose event was persisted; never of a report that the cooldown blocked
\* or whose persistence failed.
C33_RecordedTimestampWasHandled ==
    \A k \in Keys :
        last_fall_timestamps[k] # None =>
            \/ /\ InFlight("mqtt")
               /\ KeyOf("mqtt") = k
               /\ EventOf("mqtt").timestamp = last_fall_timestamps[k][1]
            \/ Persisted(last_fall_timestamps[k][1])

\* the last delivery was a fall report with a device id and no timestamp
ReportWithoutTimestamp ==
    /\ delivery.msg # None
    /\ ParsesToDict(delivery.msg[1])
    /\ delivery.msg[1].device_id[1] = "str" /\ delivery.msg[1].device_id[2] # ""
    /\ IsTrue(delivery.msg[1].fall_detected)
    /\ delivery.msg[1].timestamp \in {JNull, JMissing}
    /\ GpsOk(delivery.msg[1])

\* C34: a remote fall report with a device id and no timestamp is gated by
\* the cooldown alone: delivered while no cooldown is active for its
\* device, it is authorised.
C34_TimestampOptional ==
    (ReportWithoutTimestamp /\ delivery.cooldown_free) => delivery.verdict = "alert"

\* how many entries of a list of boxes are the box b
Occurrences(b, boxes) == Cardinality({i \in 1..Len(boxes) : boxes[i] = b})
BoxesOf(people) == [i \in 1..Len(people) |-> people[i][2]]

\* C35: the assignment of an update is one-to-one: the returned list has as
\* many pairs as there were detections, its identities are pairwise
\* distinct, and every detection is the box of exactly one pair.
C35_OneToOneAssignment ==
    /\ Len(tracked_people) = Len(detected)
    /\ \A i, j \in 1..Len(tracked_people) :
            tracked_people[i][1] = tracked_people[j][1] => i = j
    /\ \A b \in Boxes :
            Occurrences(b, BoxesOf(tracked_people)) = Occurrences(b, detected)

\* C35 witness: two tracked identities both matched the only detection of
\* an update, and one pair was returned
C35_Witness ==
    /\ Len(prev_tracked) = 2
    /\ Len(detected) = 1
    /\ \A k \in 1..2 : IouAboveThreshold(prev_tracked[k][2], detected[1])
    /\ Len(tracked_people) = 1
    /\ tracked_people[1][1] = prev_tracked[1][1]

\* C36: the tracker keeps no identity across a frame without a match: after
\* an update the table has one entry per detection of that update, an
\* identity none of whose detections matched is gone, an update without
\* detections leaves the table empty, and the identities given after that
\* are new.
C36_NoOcclusionMemory ==
    /\ Len(tracked_people) = Len(detected)
    /\ \A k \in 1..Len(prev_tracked) :
            (\A i \in 1..Len(detected) : ~IouAboveThreshold(prev_tracked[k][2], detected[i]))
                => prev_tracked[k][1] \notin Ids(tracked_people)
    /\ detected = <<>> => tracked_people = <<>>
    /\ prev_tracked = <<>> => Ids(tracked_people) \cap returned_before = {}

\* C36 witness: a box was tracked, an update without detections emptied the
\* table, and the same box then got an identity
C36_Witness ==
    /\ returned_before # {}
    /\ prev_tracked = <<>>
    /\ Len(tracked_people) = 1
    /\ tracked_people[1][2] = <<0, 0, 10, 1>>
    /\ tracked_people[1][1] > 0

\* C37: the row written for a fall event carries the event's entity
\* identifier: while a handler dispatches the alert of the event it
\* persisted, the identifier column of that row is the event's entity_id.
C37_RowCarriesEntityId ==
    \A h \in Handlers :
        (task[h].pc = "send" /\ task[h].fall_id # None) =>
            fall_events[task[h].fall_id[1]].device_id = Some(EventOf(h).entity_id)

\* run_forever has given up after max_retries consecutive failures
GaveUp == tasks["mqtt_listener"] = "finished" /\ ~mqtt_running

\* C38: once run_forever has given up, mqtt_processor_loop observes
\* is_running() false and returns; it does not wait forever in get_message.
C38_ProcessorTerminates == GaveUp ~> (tasks["mqtt_processor"] = "finished")

\* C39: the reconnect loop is bounded: the retry count never exceeds
\* max_retries, run_forever returns by itself exactly with max_retries
\* consecutive failures counted, and whenever it has ended, by giving up
\* or by cancellation, _running is false.
C39_ReconnectBounded ==
    /\ retry_count <= max_retries
    /\ tasks["mqtt_listener"] = "finished" => retry_count = max_retries
    /\ (retry_count = max_retries /\ tasks["mqtt_listener"] # "cancelled")
            => tasks["mqtt_listener"] = "finished"
    /\ Ended("mqtt_listener") => ~mqtt_running

\* the messages that were parsed, normalized, and not dropped at the put
\* timeout, in the order the broker delivered them
Accepted ==
    LET normalized == [i \in 1..Len(SelectSeq(received, Parseable)) |->
                          NormalizeData(SelectSeq(received, Parseable)[i])]
    IN  SelectSeq(normalized, LAMBDA m : \A l \in lost : l.msg # m)

\* C40: the message queue is a bounded FIFO: it never holds more than its
\* maximum, the messages handed to handle_mqtt_data followed by those still
\* queued or waiting to be put are the accepted messages in the order of
\* their reception, each once, and a message was dropped only at a put
\* timeout that found the queue full.
C40_BoundedFifo ==
    /\ Len(queued_messages) <= MaxQueue
    /\ handled \o queued_messages \o (IF putting = None THEN <<>> ELSE <<putting[1]>>)
           = Accepted
    /\ \A l \in lost : l.qsize = MaxQueue

\* C40 witness: two messages were queued together and handed over in the
\* order of their reception, and a third was dropped at the put timeout
C40_Witness ==
    /\ Len(received) >= 3
    /\ Len(handled) = 2
    /\ handled[1] = NormalizeData(received[1])
    /\ handled[2] = NormalizeData(received[2])
    /\ lost # {}

====
